---- MODULE Spec2Model ----
(***************************************************************************)
(* Model of go-load-tester: the outcome classifier (internal/errors), the  *)
(* request executor (internal/client), the bounded-concurrency dispatcher  *)
(* (internal/runner) and the statistics collector (internal/stats).        *)
(*                                                                         *)
(* Strings are sequences of one-character strings, so that                 *)
(* strings.Contains is a real substring search.  Durations are naturals in *)
(* an abstract unit in which time.Hour is Hour units.  float64 values are  *)
(* kept as exact fractions <<numerator, denominator>>.                     *)
(***************************************************************************)
EXTENDS Integers, Sequences, FiniteSets, Bags, TLC

(***************************************************************************)
(* Bounds of the model.                                                    *)
(***************************************************************************)
MaxRequests == 3
MaxConcurrency == 3

(***************************************************************************)
(* Strings.                                                                *)
(***************************************************************************)
Contains(s, substr) ==
  /\ Len(substr) <= Len(s)
  /\ \E k \in 0..(Len(s) - Len(substr)) : SubSeq(s, k + 1, k + Len(substr)) = substr

EmptyString == << >>
str_tls == <<"t", "l", "s">>
str_certificate == <<"c", "e", "r", "t", "i", "f", "i", "c", "a", "t", "e">>
str_dial == <<"d", "i", "a", "l">>
str_read == <<"r", "e", "a", "d">>

\* Error texts as err.Error() returns them (shortened).
text_noSuchHost == <<"n", "o", " ", "h", "o", "s", "t">>
text_refused == <<"r", "e", "f", "u", "s", "e", "d">>
text_tlsHandshake == <<"t", "l", "s", ":", " ", "b", "a", "d">>
text_x509 == <<"x", "5", "0", "9", ":", " ">> \o str_certificate
text_upperTLS == <<"T", "L", "S", " ", "e", "r", "r">>
text_deadline == <<"d", "e", "a", "d", "l", "i", "n", "e">>
text_eof == <<"E", "O", "F">>

ErrorTexts == {text_noSuchHost, text_refused, text_tlsHandshake, text_x509,
               text_upperTLS, text_eof}

(***************************************************************************)
(* Go error values.  dyn is the dynamic type the type assertions of        *)
(* CategorizeError look at; timeout is what the value's Timeout() method   *)
(* returns; Op is the Op field of a *net.OpError; text is Error(); wraps   *)
(* is the chain of the dynamic types of the errors it wraps, outermost     *)
(* first (a type assertion sees dyn only, never wraps).                    *)
(***************************************************************************)
nil == [dyn |-> "nil", timeout |-> FALSE, Op |-> EmptyString, text |-> EmptyString,
        wraps |-> << >>]

DNSError(isTimeout, text) ==
  [dyn |-> "*net.DNSError", timeout |-> isTimeout, Op |-> EmptyString, text |-> text,
   wraps |-> << >>]

OpError(op, isTimeout, text) ==
  [dyn |-> "*net.OpError", timeout |-> isTimeout, Op |-> op, text |-> text, wraps |-> << >>]

\* &net.OpError{Op: op, Err: inner}: Timeout() and Error() delegate to the wrapped error.
OpErrorOf(op, inner) ==
  [dyn |-> "*net.OpError", timeout |-> inner.timeout, Op |-> op, text |-> inner.text,
   wraps |-> <<inner.dyn>> \o inner.wraps]

\* *url.Error: Timeout() and Error() delegate to the wrapped error.
UrlError(inner) ==
  [dyn |-> "*url.Error", timeout |-> inner.timeout, Op |-> EmptyString, text |-> inner.text,
   wraps |-> <<inner.dyn>> \o inner.wraps]

\* errors.New(text): no Timeout method.
errorString(text) ==
  [dyn |-> "*errors.errorString", timeout |-> FALSE, Op |-> EmptyString, text |-> text,
   wraps |-> << >>]

\* context.DeadlineExceeded: its Timeout() returns true.
DeadlineExceeded ==
  [dyn |-> "context.deadlineExceededError", timeout |-> TRUE, Op |-> EmptyString,
   text |-> text_deadline, wraps |-> << >>]

\* The dynamic types that have Timeout() and Temporary(), i.e. satisfy net.Error.
NetErrorTypes == {"*net.DNSError", "*net.OpError", "*url.Error", "context.deadlineExceededError"}

LeafErrors ==
  { DNSError(t, text_noSuchHost) : t \in BOOLEAN }
  \cup { OpError(op, t, x) : op \in {str_dial, str_read}, t \in BOOLEAN,
                             x \in {text_refused, text_tlsHandshake} }
  \cup { errorString(x) : x \in ErrorTexts }
  \cup { DeadlineExceeded }

Errors == LeafErrors \cup { UrlError(e) : e \in LeafErrors }

(***************************************************************************)
(* internal/errors: ErrorType and CategorizeError.                         *)
(***************************************************************************)
ErrorTypeNone == ""
ErrorTypeDNS == "DNS"
ErrorTypeConnection == "Connection"
ErrorTypeTimeout == "Timeout"
ErrorTypeTLS == "TLS"
ErrorTypeURL == "URL"
ErrorTypeNetwork == "Network"
ErrorTypeServerError == "Server Error"
ErrorTypeClientError == "Client Error"
ErrorTypeRedirect == "Redirect"
ErrorTypeHTTPStatus == "HTTP Status"
ErrorTypeBodyValidation == "Body Validation"

ErrorType == {ErrorTypeNone, ErrorTypeDNS, ErrorTypeConnection, ErrorTypeTimeout,
              ErrorTypeTLS, ErrorTypeURL, ErrorTypeNetwork, ErrorTypeServerError,
              ErrorTypeClientError, ErrorTypeRedirect, ErrorTypeHTTPStatus,
              ErrorTypeBodyValidation}

\* A message is the format string's fixed prefix and the formatted arguments.
Message(prefix, args) == <<prefix, args>>
EmptyMessage == << >>

\* The part of CategorizeError that runs when err is nil: the HTTP-level errors and the
\* body validation.
CategorizeResponse_ClientBoundary(statusCode, expectedStatus, expectedBody, responseBody) ==
  IF statusCode # expectedStatus THEN
    IF statusCode >= 500
      THEN <<ErrorTypeServerError, Message("Server error (HTTP %d)", <<statusCode>>)>>
    ELSE IF statusCode > 400
      THEN <<ErrorTypeClientError, Message("Client error (HTTP %d)", <<statusCode>>)>>
    ELSE IF statusCode >= 300
      THEN <<ErrorTypeRedirect, Message("Unexpected redirect (HTTP %d)", <<statusCode>>)>>
    ELSE <<ErrorTypeHTTPStatus,
           Message("Unexpected status code: %d (expected %d)", <<statusCode, expectedStatus>>)>>
  ELSE IF expectedBody # EmptyString /\ ~Contains(responseBody, expectedBody)
    THEN <<ErrorTypeBodyValidation,
           Message("Response body doesn't contain expected text: '%s'", expectedBody)>>
  ELSE <<ErrorTypeNone, EmptyMessage>>

CategorizeResponse_BodyFirst(statusCode, expectedStatus, expectedBody, responseBody) ==
  IF expectedBody # EmptyString /\ ~Contains(responseBody, expectedBody)
    THEN <<ErrorTypeBodyValidation,
           Message("Response body doesn't contain expected text: '%s'", expectedBody)>>
  ELSE IF statusCode # expectedStatus THEN
    IF statusCode >= 500
      THEN <<ErrorTypeServerError, Message("Server error (HTTP %d)", <<statusCode>>)>>
    ELSE IF statusCode >= 400
      THEN <<ErrorTypeClientError, Message("Client error (HTTP %d)", <<statusCode>>)>>
    ELSE IF statusCode >= 300
      THEN <<ErrorTypeRedirect, Message("Unexpected redirect (HTTP %d)", <<statusCode>>)>>
    ELSE <<ErrorTypeHTTPStatus,
           Message("Unexpected status code: %d (expected %d)", <<statusCode, expectedStatus>>)>>
  ELSE <<ErrorTypeNone, EmptyMessage>>

CategorizeResponse_NoElse(statusCode, expectedStatus, expectedBody, responseBody) ==
  IF statusCode # expectedStatus /\ statusCode >= 500
    THEN <<ErrorTypeServerError, Message("Server error (HTTP %d)", <<statusCode>>)>>
  ELSE IF statusCode # expectedStatus /\ statusCode >= 400
    THEN <<ErrorTypeClientError, Message("Client error (HTTP %d)", <<statusCode>>)>>
  ELSE IF statusCode # expectedStatus /\ statusCode >= 300
    THEN <<ErrorTypeRedirect, Message("Unexpected redirect (HTTP %d)", <<statusCode>>)>>
  ELSE IF expectedBody # EmptyString /\ ~Contains(responseBody, expectedBody)
    THEN <<ErrorTypeBodyValidation,
           Message("Response body doesn't contain expected text: '%s'", expectedBody)>>
  ELSE <<ErrorTypeNone, EmptyMessage>>

CategorizeResponse(statusCode, expectedStatus, expectedBody, responseBody) ==
  IF statusCode # expectedStatus THEN
    IF statusCode >= 500
      THEN <<ErrorTypeServerError, Message("Server error (HTTP %d)", <<statusCode>>)>>
    ELSE IF statusCode >= 400
      THEN <<ErrorTypeClientError, Message("Client error (HTTP %d)", <<statusCode>>)>>
    ELSE IF statusCode >= 300
      THEN <<ErrorTypeRedirect, Message("Unexpected redirect (HTTP %d)", <<statusCode>>)>>
    ELSE <<ErrorTypeHTTPStatus,
           Message("Unexpected status code: %d (expected %d)", <<statusCode, expectedStatus>>)>>
  ELSE IF expectedBody # EmptyString /\ ~Contains(responseBody, expectedBody)
    THEN <<ErrorTypeBodyValidation,
           Message("Response body doesn't contain expected text: '%s'", expectedBody)>>
  ELSE <<ErrorTypeNone, EmptyMessage>>

CategorizeError_DNSFirst(err, statusCode, expectedStatus, expectedBody, responseBody) ==
  IF err # nil THEN
    IF err.dyn = "*net.DNSError"
      THEN <<ErrorTypeDNS, Message("DNS resolution failed: ", err.text)>>
    ELSE IF err.dyn \in NetErrorTypes /\ err.timeout
      THEN <<ErrorTypeTimeout, Message("Request timeout: ", err.text)>>
    ELSE IF err.dyn = "*net.OpError" /\ err.Op = str_dial
      THEN <<ErrorTypeConnection, Message("Connection failed: ", err.text)>>
    ELSE IF err.dyn = "*url.Error"
      THEN <<ErrorTypeURL, Message("Invalid URL: ", err.text)>>
    ELSE IF Contains(err.text, str_tls) \/ Contains(err.text, str_certificate)
      THEN <<ErrorTypeTLS, Message("TLS/SSL error: ", err.text)>>
    ELSE IF err = DeadlineExceeded
      THEN <<ErrorTypeTimeout, Message("Request deadline exceeded", EmptyString)>>
    ELSE <<ErrorTypeNetwork, Message("Network error: ", err.text)>>
  ELSE CategorizeResponse(statusCode, expectedStatus, expectedBody, responseBody)

CategorizeError_NoTLS(err, statusCode, expectedStatus, expectedBody, responseBody) ==
  IF err # nil THEN
    IF err.dyn \in NetErrorTypes /\ err.timeout
      THEN <<ErrorTypeTimeout, Message("Request timeout: ", err.text)>>
    ELSE IF err.dyn = "*net.DNSError"
      THEN <<ErrorTypeDNS, Message("DNS resolution failed: ", err.text)>>
    ELSE IF err.dyn = "*net.OpError" /\ err.Op = str_dial
      THEN <<ErrorTypeConnection, Message("Connection failed: ", err.text)>>
    ELSE IF err.dyn = "*url.Error"
      THEN <<ErrorTypeURL, Message("Invalid URL: ", err.text)>>
    ELSE IF err = DeadlineExceeded
      THEN <<ErrorTypeTimeout, Message("Request deadline exceeded", EmptyString)>>
    ELSE <<ErrorTypeNetwork, Message("Network error: ", err.text)>>
  ELSE CategorizeResponse(statusCode, expectedStatus, expectedBody, responseBody)

CategorizeError(err, statusCode, expectedStatus, expectedBody, responseBody) ==
  IF err # nil THEN
    IF err.dyn \in NetErrorTypes /\ err.timeout
      THEN <<ErrorTypeTimeout, Message("Request timeout: ", err.text)>>
    ELSE IF err.dyn = "*net.DNSError"
      THEN <<ErrorTypeDNS, Message("DNS resolution failed: ", err.text)>>
    ELSE IF err.dyn = "*net.OpError" /\ err.Op = str_dial
      THEN <<ErrorTypeConnection, Message("Connection failed: ", err.text)>>
    ELSE IF err.dyn = "*url.Error"
      THEN <<ErrorTypeURL, Message("Invalid URL: ", err.text)>>
    ELSE IF Contains(err.text, str_tls) \/ Contains(err.text, str_certificate)
      THEN <<ErrorTypeTLS, Message("TLS/SSL error: ", err.text)>>
    ELSE IF err = DeadlineExceeded
      THEN <<ErrorTypeTimeout, Message("Request deadline exceeded", EmptyString)>>
    ELSE <<ErrorTypeNetwork, Message("Network error: ", err.text)>>
  ELSE CategorizeResponse(statusCode, expectedStatus, expectedBody, responseBody)

(***************************************************************************)
(* internal/config: RequestConfig.  parseAndValidateFlags leaves the       *)
(* Concurrency field at its zero value.                                    *)
(***************************************************************************)
str_hello == <<"h", "i">>
str_other == <<"n", "o">>
str_ohhi == <<"o", "h", "h", "i">>

RequestConfig(url, expectedStatus, expectedBody, timeout, conc) ==
  [URL |-> url, ExpectedStatus |-> expectedStatus, ExpectedBody |-> expectedBody,
   Timeout |-> timeout, Concurrency |-> conc]

\* int and time.Duration (int64) are two's complement integers of the same width on the
\* usual 64-bit build; IntBits is that width scaled down, and arithmetic on them wraps.
IntBits == 4
MaxInt == 2 ^ (IntBits - 1) - 1
MinInt == -(2 ^ (IntBits - 1))
Wrap(x) == ((x - MinInt) % (2 ^ IntBits)) + MinInt

\* time.Second in the units of time.Duration (scaled down from 10^9).
Second == 2

\* The configuration of the modelled runs: -status 200 -body hi -timeout 1.
RunConfig == RequestConfig("http://test", 200, str_hello, 1 * Second, 0)

(***************************************************************************)
(* cmd/loadtester: the flags, parseAndValidateFlags and what it returns.   *)
(***************************************************************************)
Flags(url, requests, conc, expectedCode, expectedBody, timeout, outputJSON) ==
  [url |-> url, requests |-> requests, concurrency |-> conc, status |-> expectedCode,
   body |-> expectedBody, timeout |-> timeout, json |-> outputJSON]

\* fmt.Errorf(format, arg)
Errorf(format, arg) ==
  [dyn |-> "*errors.errorString", timeout |-> FALSE, Op |-> EmptyString,
   text |-> Message(format, <<arg>>), wraps |-> << >>]

ParseResult(cfg, requests, conc, outputJSON, err) ==
  [cfg |-> cfg, requests |-> requests, concurrency |-> conc, outputJSON |-> outputJSON,
   err |-> err]

ZeroConfig == RequestConfig("", 0, EmptyString, 0, 0)

parseAndValidateFlags(f) ==
  IF f.requests < 1 THEN
    ParseResult(ZeroConfig, 0, 0, FALSE, Errorf("requests must be >= 1, got %d", f.requests))
  ELSE IF f.concurrency < 1 THEN
    ParseResult(ZeroConfig, 0, 0, FALSE,
              Errorf("concurrency must be >= 1, got %d", f.concurrency))
  ELSE IF f.timeout < 1 THEN
    ParseResult(ZeroConfig, 0, 0, FALSE, Errorf("timeout must be >= 1, got %d", f.timeout))
  ELSE
    LET cfg == [URL |-> f.url, ExpectedStatus |-> f.status, ExpectedBody |-> f.body,
                Timeout |-> Wrap(f.timeout * Second), Concurrency |-> 0]
    IN  ParseResult(cfg, f.requests, f.concurrency, f.json, nil)

NoFlags == Flags("", 0, 0, 0, EmptyString, 0, FALSE)
NoParsed == ParseResult(ZeroConfig, -1, -1, FALSE, nil)

(***************************************************************************)
(* internal/client: TestResult and MakeRequest.                            *)
(*                                                                         *)
(* What the network does with one request is the transport's answer:       *)
(* newReqErr is the error of http.NewRequestWithContext, doErr the error   *)
(* of client.Do (always a *url.Error, as net/http documents), status and   *)
(* body the response, readErr the error of reading the body, elapsed the   *)
(* time from start to the return of client.Do.                             *)
(***************************************************************************)
BodyCap == 3

TestResult(success, statusCode, responseTime, errorType, errorMessage, responseSize) ==
  [Success |-> success, StatusCode |-> statusCode, ResponseTime |-> responseTime,
   ErrorType |-> errorType, ErrorMessage |-> errorMessage, ResponseSize |-> responseSize]

Answer(newReqErr, doErr, status, body, readErr, elapsed) ==
  [newReqErr |-> newReqErr, doErr |-> doErr, status |-> status, body |-> body,
   readErr |-> readErr, elapsed |-> elapsed]

\* io.LimitReader(resp.Body, cap): the first cap bytes.
LimitReader_NoCap(body, cap) == body

LimitReader(body, cap) == IF Len(body) > cap THEN SubSeq(body, 1, cap) ELSE body

MakeRequest_SuccessByStatus(config, answer) ==
  IF answer.newReqErr # nil THEN
    LET cat == CategorizeError(answer.newReqErr, 0, config.ExpectedStatus, config.ExpectedBody,
                               EmptyString)
    IN  TestResult(FALSE, 0, answer.elapsed, cat[1], cat[2], 0)
  ELSE IF answer.doErr # nil THEN
    LET cat == CategorizeError(answer.doErr, 0, config.ExpectedStatus, config.ExpectedBody,
                               EmptyString)
    IN  TestResult(FALSE, 0, answer.elapsed, cat[1], cat[2], 0)
  ELSE
    LET body == LimitReader(answer.body, BodyCap) IN
    IF answer.readErr # nil THEN
      LET cat == CategorizeError(answer.readErr, 0, config.ExpectedStatus, config.ExpectedBody,
                                 EmptyString)
      IN  TestResult(FALSE, answer.status, answer.elapsed, cat[1], cat[2], Len(body))
    ELSE
      LET cat == CategorizeError(nil, answer.status, config.ExpectedStatus,
                                 config.ExpectedBody, body)
          success == answer.status = config.ExpectedStatus
      IN  TestResult(success, answer.status, answer.elapsed, cat[1], cat[2], Len(body))

MakeRequest_ReadErrorStatusZero(config, answer) ==
  IF answer.newReqErr # nil THEN
    LET cat == CategorizeError(answer.newReqErr, 0, config.ExpectedStatus, config.ExpectedBody,
                               EmptyString)
    IN  TestResult(FALSE, 0, answer.elapsed, cat[1], cat[2], 0)
  ELSE IF answer.doErr # nil THEN
    LET cat == CategorizeError(answer.doErr, 0, config.ExpectedStatus, config.ExpectedBody,
                               EmptyString)
    IN  TestResult(FALSE, 0, answer.elapsed, cat[1], cat[2], 0)
  ELSE
    LET body == LimitReader(answer.body, BodyCap) IN
    IF answer.readErr # nil THEN
      LET cat == CategorizeError(answer.readErr, 0, config.ExpectedStatus, config.ExpectedBody,
                                 EmptyString)
      IN  TestResult(FALSE, 0, answer.elapsed, cat[1], cat[2], Len(body))
    ELSE
      LET cat == CategorizeError(nil, answer.status, config.ExpectedStatus,
                                 config.ExpectedBody, body)
          success == cat[1] = ErrorTypeNone
      IN  TestResult(success, answer.status, answer.elapsed, cat[1], cat[2], Len(body))

MakeRequest_ClassifyDoErrorByStatus(config, answer) ==
  IF answer.newReqErr # nil THEN
    LET cat == CategorizeError(answer.newReqErr, 0, config.ExpectedStatus, config.ExpectedBody,
                               EmptyString)
    IN  TestResult(FALSE, 0, answer.elapsed, cat[1], cat[2], 0)
  ELSE IF answer.doErr # nil THEN
    LET cat == CategorizeError(nil, 0, config.ExpectedStatus, config.ExpectedBody,
                               EmptyString)
    IN  TestResult(FALSE, 0, answer.elapsed, cat[1], cat[2], 0)
  ELSE
    LET body == LimitReader(answer.body, BodyCap) IN
    IF answer.readErr # nil THEN
      LET cat == CategorizeError(answer.readErr, 0, config.ExpectedStatus, config.ExpectedBody,
                                 EmptyString)
      IN  TestResult(FALSE, answer.status, answer.elapsed, cat[1], cat[2], Len(body))
    ELSE
      LET cat == CategorizeError(nil, answer.status, config.ExpectedStatus,
                                 config.ExpectedBody, body)
          success == cat[1] = ErrorTypeNone
      IN  TestResult(success, answer.status, answer.elapsed, cat[1], cat[2], Len(body))

MakeRequest(config, answer) ==
  IF answer.newReqErr # nil THEN
    LET cat == CategorizeError(answer.newReqErr, 0, config.ExpectedStatus, config.ExpectedBody,
                               EmptyString)
    IN  TestResult(FALSE, 0, answer.elapsed, cat[1], cat[2], 0)
  ELSE IF answer.doErr # nil THEN
    LET cat == CategorizeError(answer.doErr, 0, config.ExpectedStatus, config.ExpectedBody,
                               EmptyString)
    IN  TestResult(FALSE, 0, answer.elapsed, cat[1], cat[2], 0)
  ELSE
    LET body == LimitReader(answer.body, BodyCap) IN
    IF answer.readErr # nil THEN
      LET cat == CategorizeError(answer.readErr, 0, config.ExpectedStatus, config.ExpectedBody,
                                 EmptyString)
      IN  TestResult(FALSE, answer.status, answer.elapsed, cat[1], cat[2], Len(body))
    ELSE
      LET cat == CategorizeError(nil, answer.status, config.ExpectedStatus,
                                 config.ExpectedBody, body)
          success == cat[1] = ErrorTypeNone
      IN  TestResult(success, answer.status, answer.elapsed, cat[1], cat[2], Len(body))

\* The answers the transport gives in the modelled runs.
Answers ==
  { Answer(nil, nil, 200, str_hello, nil, 1),
    Answer(nil, nil, 500, str_other, nil, 2),
    Answer(nil, UrlError(DeadlineExceeded), 0, EmptyString, nil, 4) }

NoResult == TestResult(FALSE, -1, 0, ErrorTypeNone, EmptyMessage, 0)

(***************************************************************************)
(* internal/stats: LoadTestStats, percentile, CollectAndCalculateStats.    *)
(***************************************************************************)
Hour == 3

RECURSIVE Gcd(_, _)
Gcd(a, b) == IF b = 0 THEN a ELSE Gcd(b, a % b)

\* The exact quotient n/d as a reduced fraction; n/0 is +Inf, <<1, 0>> (0/0 is NaN, <<0, 0>>).
Fraction(n, d) == LET g == Gcd(n, d) IN IF g = 0 THEN <<0, 0>> ELSE <<n \div g, d \div g>>

\* sort.Slice with the less function a < b: ascending insertion.
RECURSIVE Insert(_, _)
Insert(sorted, x) ==
  IF sorted = << >> THEN <<x>>
  ELSE IF x < Head(sorted) THEN <<x>> \o sorted
  ELSE <<Head(sorted)>> \o Insert(Tail(sorted), x)

RECURSIVE Sort(_)
Sort(s) == IF s = << >> THEN << >> ELSE Insert(Sort(Tail(s)), Head(s))

percentile_NearestRank(sortedTimes, p) ==
  IF Len(sortedTimes) = 0 THEN 0
  ELSE LET index == ((Len(sortedTimes) * p + 99) \div 100) - 1
           clamped == IF index < 0 THEN 0 ELSE index
       IN  sortedTimes[clamped + 1]

percentile(sortedTimes, p) ==
  IF Len(sortedTimes) = 0 THEN 0
  ELSE LET index == (Len(sortedTimes) * p) \div 100
           clamped == IF index >= Len(sortedTimes) THEN Len(sortedTimes) - 1 ELSE index
       IN  sortedTimes[clamped + 1]

\* The stats value CollectAndCalculateStats starts from; totalTime is its local sum.
InitStats ==
  [TotalRequests |-> 0, SuccessfulReqs |-> 0, FailedReqs |-> 0, SuccessRate |-> <<0, 1>>,
   AverageTime |-> 0, MinTime |-> Hour, MaxTime |-> 0, MedianTime |-> 0, P95Time |-> 0,
   P99Time |-> 0, ErrorBreakdown |-> EmptyBag, StatusBreakdown |-> EmptyBag,
   TotalDataTransfer |-> 0, RequestsPerSecond |-> <<0, 1>>, TestDuration |-> 0,
   ResponseTimes |-> << >>, totalTime |-> 0]

\* One iteration of the loop over the results channel, field by field.
SuccessfulReqs_CountsStatus(st, result) ==
  IF result.StatusCode > 0 THEN st.SuccessfulReqs + 1 ELSE st.SuccessfulReqs

ConsumeSuccessfulReqs(st, result) ==
  IF result.Success THEN st.SuccessfulReqs + 1 ELSE st.SuccessfulReqs

FailedReqs_OnlyWithStatus(st, result) ==
  IF ~result.Success /\ result.StatusCode > 0 THEN st.FailedReqs + 1 ELSE st.FailedReqs

ConsumeFailedReqs(st, result) ==
  IF result.Success THEN st.FailedReqs ELSE st.FailedReqs + 1

ErrorBreakdown_OnlyWithStatus(st, result) ==
  IF ~result.Success /\ result.ErrorType # ErrorTypeNone /\ result.StatusCode > 0
    THEN st.ErrorBreakdown (+) SetToBag({result.ErrorType})
    ELSE st.ErrorBreakdown

ConsumeErrorBreakdown(st, result) ==
  IF ~result.Success /\ result.ErrorType # ErrorTypeNone
    THEN st.ErrorBreakdown (+) SetToBag({result.ErrorType})
    ELSE st.ErrorBreakdown

StatusBreakdown_OnlySuccesses(st, result) ==
  IF result.StatusCode > 0 /\ result.Success
    THEN st.StatusBreakdown (+) SetToBag({result.StatusCode})
    ELSE st.StatusBreakdown

ConsumeStatusBreakdown(st, result) ==
  IF result.StatusCode > 0
    THEN st.StatusBreakdown (+) SetToBag({result.StatusCode})
    ELSE st.StatusBreakdown

Consume_TimesOfSuccesses(st, result) ==
  [st EXCEPT
     !.TotalRequests = @ + 1,
     !.ResponseTimes = IF result.Success THEN Append(@, result.ResponseTime) ELSE @,
     !.TotalDataTransfer = @ + result.ResponseSize,
     !.SuccessfulReqs = ConsumeSuccessfulReqs(st, result),
     !.FailedReqs = ConsumeFailedReqs(st, result),
     !.ErrorBreakdown = ConsumeErrorBreakdown(st, result),
     !.StatusBreakdown = ConsumeStatusBreakdown(st, result),
     !.totalTime = @ + result.ResponseTime,
     !.MinTime = IF result.ResponseTime < @ THEN result.ResponseTime ELSE @,
     !.MaxTime = IF result.ResponseTime > @ THEN result.ResponseTime ELSE @]

Consume_MaxIsLast(st, result) ==
  [st EXCEPT
     !.TotalRequests = @ + 1,
     !.ResponseTimes = Append(@, result.ResponseTime),
     !.TotalDataTransfer = @ + result.ResponseSize,
     !.SuccessfulReqs = ConsumeSuccessfulReqs(st, result),
     !.FailedReqs = ConsumeFailedReqs(st, result),
     !.ErrorBreakdown = ConsumeErrorBreakdown(st, result),
     !.StatusBreakdown = ConsumeStatusBreakdown(st, result),
     !.totalTime = @ + result.ResponseTime,
     !.MinTime = IF result.ResponseTime < @ THEN result.ResponseTime ELSE @,
     !.MaxTime = result.ResponseTime]

Consume(st, result) ==
  [st EXCEPT
     !.TotalRequests = @ + 1,
     !.ResponseTimes = Append(@, result.ResponseTime),
     !.TotalDataTransfer = @ + result.ResponseSize,
     !.SuccessfulReqs = ConsumeSuccessfulReqs(st, result),
     !.FailedReqs = ConsumeFailedReqs(st, result),
     !.ErrorBreakdown = ConsumeErrorBreakdown(st, result),
     !.StatusBreakdown = ConsumeStatusBreakdown(st, result),
     !.totalTime = @ + result.ResponseTime,
     !.MinTime = IF result.ResponseTime < @ THEN result.ResponseTime ELSE @,
     !.MaxTime = IF result.ResponseTime > @ THEN result.ResponseTime ELSE @]

\* The code after the loop; duration is time.Since(testStart).
Finalize_RateUnguarded(st, duration) ==
  LET st1 == [st EXCEPT !.TestDuration = duration] IN
  IF st1.TotalRequests > 0 THEN
    LET sorted == Sort(st1.ResponseTimes) IN
    [st1 EXCEPT
       !.SuccessRate = Fraction(st1.SuccessfulReqs * 100, st1.TotalRequests),
       !.AverageTime = st1.totalTime \div st1.TotalRequests,
       !.RequestsPerSecond = Fraction(st1.TotalRequests, duration),
       !.ResponseTimes = sorted,
       !.MedianTime = IF Len(sorted) > 0 THEN percentile(sorted, 50) ELSE @,
       !.P95Time = IF Len(sorted) > 0 THEN percentile(sorted, 95) ELSE @,
       !.P99Time = IF Len(sorted) > 0 THEN percentile(sorted, 99) ELSE @]
  ELSE [st1 EXCEPT !.SuccessRate = Fraction(st1.SuccessfulReqs * 100, st1.TotalRequests)]

Finalize_SumOfRequestTimes(st, duration) ==
  LET st1 == [st EXCEPT !.TestDuration = st.totalTime] IN
  IF st1.TotalRequests > 0 THEN
    LET sorted == Sort(st1.ResponseTimes) IN
    [st1 EXCEPT
       !.SuccessRate = Fraction(st1.SuccessfulReqs * 100, st1.TotalRequests),
       !.AverageTime = st1.totalTime \div st1.TotalRequests,
       !.RequestsPerSecond = Fraction(st1.TotalRequests, duration),
       !.ResponseTimes = sorted,
       !.MedianTime = IF Len(sorted) > 0 THEN percentile(sorted, 50) ELSE @,
       !.P95Time = IF Len(sorted) > 0 THEN percentile(sorted, 95) ELSE @,
       !.P99Time = IF Len(sorted) > 0 THEN percentile(sorted, 99) ELSE @]
  ELSE st1

Finalize_NoSort(st, duration) ==
  LET st1 == [st EXCEPT !.TestDuration = duration] IN
  IF st1.TotalRequests > 0 THEN
    LET sorted == st1.ResponseTimes IN
    [st1 EXCEPT
       !.SuccessRate = Fraction(st1.SuccessfulReqs * 100, st1.TotalRequests),
       !.AverageTime = st1.totalTime \div st1.TotalRequests,
       !.RequestsPerSecond = Fraction(st1.TotalRequests, duration),
       !.ResponseTimes = sorted,
       !.MedianTime = IF Len(sorted) > 0 THEN percentile(sorted, 50) ELSE @,
       !.P95Time = IF Len(sorted) > 0 THEN percentile(sorted, 95) ELSE @,
       !.P99Time = IF Len(sorted) > 0 THEN percentile(sorted, 99) ELSE @]
  ELSE st1

Finalize(st, duration) ==
  LET st1 == [st EXCEPT !.TestDuration = duration] IN
  IF st1.TotalRequests > 0 THEN
    LET sorted == Sort(st1.ResponseTimes) IN
    [st1 EXCEPT
       !.SuccessRate = Fraction(st1.SuccessfulReqs * 100, st1.TotalRequests),
       !.AverageTime = st1.totalTime \div st1.TotalRequests,
       !.RequestsPerSecond = Fraction(st1.TotalRequests, duration),
       !.ResponseTimes = sorted,
       !.MedianTime = IF Len(sorted) > 0 THEN percentile(sorted, 50) ELSE @,
       !.P95Time = IF Len(sorted) > 0 THEN percentile(sorted, 95) ELSE @,
       !.P99Time = IF Len(sorted) > 0 THEN percentile(sorted, 99) ELSE @]
  ELSE st1

(***************************************************************************)
(* internal/runner: RunLoadTest.                                           *)
(*                                                                         *)
(* State of one run.  The worker goroutines run the same closure and       *)
(* capture no variable of their own, so pc counts the goroutines at each   *)
(* position and result is the bag of the local variables result of the     *)
(* goroutines that hold one.  Channels of struct{} are kept as their fill  *)
(* count.  calls, produced, consumed, closes and clock are history         *)
(* variables (the clock counts the steps taken so far).                    *)
(***************************************************************************)
VARIABLES
  numRequests,     \* argument numRequests
  concurrency,     \* argument concurrency
  mainPc,          \* position of the goroutine that runs RunLoadTest
  i,               \* loop variable of the launch loop
  wg,              \* counter of the sync.WaitGroup
  pc,              \* number of worker goroutines at each position
  result,          \* bag of the workers' local variables result, set and not yet sent
  semaphore,       \* number of elements in the semaphore channel
  results,         \* buffer of the results channel
  resultsClosed,   \* the results channel is closed
  progressChan,    \* number of elements in the progress channel
  progressClosed,  \* the progress channel is closed
  closerPc,        \* position of the goroutine that closes the channels
  reporterPc,      \* position of the progress goroutine
  completed,       \* local variable completed of the progress goroutine
  printed,         \* the counts of the progress lines printed so far
  stats,           \* local variable stats of CollectAndCalculateStats
  panicked,        \* a goroutine has panicked
  calls,           \* number of MakeRequest calls made so far
  produced,        \* bag of the results MakeRequest has returned
  consumed,        \* bag of the results the collector has consumed
  closes,          \* number of close operations on <<results, progressChan>>
  clock,           \* steps taken so far
  catArgs,         \* arguments of the CategorizeError call under study
  catResult,       \* its return value
  execConfig,      \* argument of the MakeRequest call under study
  execAnswer,      \* what the transport answers to that call
  execResult,      \* its return value
  pctResult,       \* <<p, percentile(stats.ResponseTimes, p)>> of the percentile call under study
  config,          \* argument config of RunLoadTest, handed to every MakeRequest
  flags,           \* the command line flags of the process
  parsed           \* what parseAndValidateFlags returned to main

runVars == <<numRequests, concurrency, mainPc, i, wg, pc, result, semaphore, results,
             resultsClosed, progressChan, progressClosed, closerPc, reporterPc, completed,
             printed, stats, panicked, calls, produced, consumed, closes, clock, config>>
catVars == <<catArgs, catResult>>
execVars == <<execConfig, execAnswer, execResult>>
harnessVars == <<catVars, execVars, pctResult>>
mainVars == <<flags, parsed>>
vars == <<runVars, harnessVars, mainVars>>

\* The bag of the elements of a channel's buffer.
RECURSIVE SeqToBag(_)
SeqToBag(q) == IF q = << >> THEN EmptyBag ELSE SetToBag({Head(q)}) (+) SeqToBag(Tail(q))

\* Positions of a worker goroutine: the statement it executes next.
Positions == {"acquire", "call", "send", "progress", "release", "done", "exited"}

\* One goroutine moves from position from to position to.
Move(p, from, to) == [p EXCEPT ![from] = @ - 1, ![to] = @ + 1]

NoArgs == [err |-> nil, statusCode |-> 0, expectedStatus |-> 0, expectedBody |-> EmptyString,
           responseBody |-> EmptyString]
NoCategory == << >>
NoAnswer == Answer(nil, nil, 0, EmptyString, nil, 0)
NoPercentile == << >>

\* No call of CategorizeError, of MakeRequest, of percentile is under study.
IdleCategorize == catArgs = NoArgs /\ catResult = NoCategory
IdleMakeRequest == execConfig = RunConfig /\ execAnswer = NoAnswer /\ execResult = NoResult
IdlePercentile == pctResult = NoPercentile

\* RunLoadTest is called directly, not from main.
IdleMain == flags = NoFlags /\ parsed = NoParsed

InitRun(n, c) ==
  /\ numRequests = n
  /\ concurrency = c
  /\ mainPc = "launch"
  /\ i = 0
  /\ wg = 0
  /\ pc = [p \in Positions |-> 0]
  /\ result = EmptyBag
  /\ semaphore = 0
  /\ results = << >>
  /\ resultsClosed = FALSE
  /\ progressChan = 0
  /\ progressClosed = FALSE
  /\ closerPc = "unborn"
  /\ reporterPc = "range"
  /\ completed = 0
  /\ printed = << >>
  /\ stats = InitStats
  /\ panicked = FALSE
  /\ calls = 0
  /\ produced = EmptyBag
  /\ consumed = EmptyBag
  /\ closes = <<0, 0>>
  /\ clock = 0

Init ==
  /\ \E n \in 1..MaxRequests, c \in 1..MaxConcurrency : InitRun(n, c)
  /\ config = RunConfig
  /\ IdleCategorize
  /\ IdleMakeRequest
  /\ IdlePercentile
  /\ IdleMain

\* A step of the run: the clock advances and the classifier harness is untouched.
Step == /\ ~panicked
        /\ clock' = clock + 1
        /\ UNCHANGED <<numRequests, concurrency, config, harnessVars, mainVars>>

\* for i := 0; i < numRequests; i++ { wg.Add(1); go func() {...}() }
Launch ==
  /\ mainPc = "launch"
  /\ i < numRequests
  /\ Step
  /\ wg' = wg + 1
  /\ pc' = [pc EXCEPT !["acquire"] = @ + 1]
  /\ i' = i + 1
  /\ UNCHANGED <<mainPc, result, semaphore, results, resultsClosed, progressChan,
                 progressClosed, closerPc, reporterPc, completed, printed, stats, panicked,
                 calls, produced, consumed, closes>>

StartCloser_NoWait ==
  /\ mainPc = "launch"
  /\ ~(i < numRequests)
  /\ Step
  /\ closerPc' = "closeResults"
  /\ mainPc' = "collect"
  /\ UNCHANGED <<i, wg, pc, result, semaphore, results, resultsClosed, progressChan,
                 progressClosed, reporterPc, completed, printed, stats, panicked, calls,
                 produced, consumed, closes>>

StartCloser_CloseProgressFirst ==
  /\ mainPc = "launch"
  /\ ~(i < numRequests)
  /\ Step
  /\ closerPc' = "closeProgress"
  /\ mainPc' = "collect"
  /\ UNCHANGED <<i, wg, pc, result, semaphore, results, resultsClosed, progressChan,
                 progressClosed, reporterPc, completed, printed, stats, panicked, calls,
                 produced, consumed, closes>>

\* The loop ends; go func() { wg.Wait(); ... }() and the call of CollectAndCalculateStats.
StartCloser ==
  /\ mainPc = "launch"
  /\ ~(i < numRequests)
  /\ Step
  /\ closerPc' = "wait"
  /\ mainPc' = "collect"
  /\ UNCHANGED <<i, wg, pc, result, semaphore, results, resultsClosed, progressChan,
                 progressClosed, reporterPc, completed, printed, stats, panicked, calls,
                 produced, consumed, closes>>

\* A send on a buffered channel proceeds while the buffer holds fewer than cap elements.
CanSend_OffByOne(len, cap) == len <= cap

CanSend(len, cap) == len < cap

Acquire_AfterCall ==
  /\ pc["acquire"] > 0
  /\ CanSend(semaphore, concurrency)
  /\ Step
  /\ semaphore' = semaphore
  /\ pc' = Move(pc, "acquire", "call")
  /\ UNCHANGED <<mainPc, i, wg, result, results, resultsClosed, progressChan,
                 progressClosed, closerPc, reporterPc, completed, printed, stats, panicked,
                 calls, produced, consumed, closes>>

\* semaphore <- struct{}{}: blocks while the channel holds concurrency elements.
Acquire ==
  /\ pc["acquire"] > 0
  /\ CanSend(semaphore, concurrency)
  /\ Step
  /\ semaphore' = semaphore + 1
  /\ pc' = Move(pc, "acquire", "call")
  /\ UNCHANGED <<mainPc, i, wg, result, results, resultsClosed, progressChan,
                 progressClosed, closerPc, reporterPc, completed, printed, stats, panicked,
                 calls, produced, consumed, closes>>

Call_Retry ==
  /\ pc["call"] > 0
  /\ Step
  /\ \E answer \in Answers :
       LET r == MakeRequest(config, answer)
       IN  IF r.Success \/ calls >= numRequests
             THEN /\ result' = result (+) SetToBag({r})
                  /\ produced' = produced (+) SetToBag({r})
                  /\ pc' = Move(pc, "call", "send")
             ELSE UNCHANGED <<result, produced, pc>>
  /\ calls' = calls + 1
  /\ UNCHANGED <<mainPc, i, wg, semaphore, results, resultsClosed, progressChan,
                 progressClosed, closerPc, reporterPc, completed, printed, stats, panicked,
                 consumed, closes>>

\* result := client.MakeRequest(config), the transport giving one of the answers.
CallOf(answers) ==
  /\ pc["call"] > 0
  /\ Step
  /\ \E answer \in answers :
       LET r == MakeRequest(config, answer)
       IN  /\ result' = result (+) SetToBag({r})
           /\ produced' = produced (+) SetToBag({r})
  /\ calls' = calls + 1
  /\ pc' = Move(pc, "call", "send")
  /\ UNCHANGED <<mainPc, i, wg, semaphore, results, resultsClosed, progressChan,
                 progressClosed, closerPc, reporterPc, completed, printed, stats, panicked,
                 consumed, closes>>

Call == CallOf(Answers)

SendResult_DropFailed ==
  /\ pc["send"] > 0
  /\ Step
  /\ IF resultsClosed
       THEN /\ panicked' = TRUE
            /\ UNCHANGED <<results, result, pc>>
       ELSE /\ CanSend(Len(results), numRequests)
            /\ \E r \in BagToSet(result) :
                 /\ results' = IF r.Success THEN Append(results, r) ELSE results
                 /\ result' = result (-) SetToBag({r})
            /\ pc' = Move(pc, "send", "progress")
            /\ UNCHANGED panicked
  /\ UNCHANGED <<mainPc, i, wg, semaphore, resultsClosed, progressChan, progressClosed,
                 closerPc, reporterPc, completed, printed, stats, calls, produced, consumed,
                 closes>>

SendResult_CapacityOfGate ==
  /\ pc["send"] > 0
  /\ Step
  /\ IF resultsClosed
       THEN /\ panicked' = TRUE
            /\ UNCHANGED <<results, result, pc>>
       ELSE /\ CanSend(Len(results), concurrency)
            /\ \E r \in BagToSet(result) :
                 /\ results' = Append(results, r)
                 /\ result' = result (-) SetToBag({r})
            /\ pc' = Move(pc, "send", "progress")
            /\ UNCHANGED panicked
  /\ UNCHANGED <<mainPc, i, wg, semaphore, resultsClosed, progressChan, progressClosed,
                 closerPc, reporterPc, completed, printed, stats, calls, produced, consumed,
                 closes>>

\* results <- result: panics on a closed channel, blocks on a full one.
SendResult ==
  /\ pc["send"] > 0
  /\ Step
  /\ IF resultsClosed
       THEN /\ panicked' = TRUE
            /\ UNCHANGED <<results, result, pc>>
       ELSE /\ CanSend(Len(results), numRequests)
            /\ \E r \in BagToSet(result) :
                 /\ results' = Append(results, r)
                 /\ result' = result (-) SetToBag({r})
            /\ pc' = Move(pc, "send", "progress")
            /\ UNCHANGED panicked
  /\ UNCHANGED <<mainPc, i, wg, semaphore, resultsClosed, progressChan, progressClosed,
                 closerPc, reporterPc, completed, printed, stats, calls, produced, consumed,
                 closes>>

SendProgress_SuccessesOnly ==
  /\ pc["progress"] > 0
  /\ Step
  /\ IF progressClosed
       THEN /\ panicked' = TRUE
            /\ UNCHANGED <<progressChan, pc>>
       ELSE /\ CanSend(progressChan, numRequests)
            /\ progressChan' = IF Len(results) > 0 /\ ~results[Len(results)].Success
                                 THEN progressChan ELSE progressChan + 1
            /\ pc' = Move(pc, "progress", "release")
            /\ UNCHANGED panicked
  /\ UNCHANGED <<mainPc, i, wg, result, semaphore, results, resultsClosed, progressClosed,
                 closerPc, reporterPc, completed, printed, stats, calls, produced, consumed,
                 closes>>

\* progressChan <- struct{}{}
SendProgress ==
  /\ pc["progress"] > 0
  /\ Step
  /\ IF progressClosed
       THEN /\ panicked' = TRUE
            /\ UNCHANGED <<progressChan, pc>>
       ELSE /\ CanSend(progressChan, numRequests)
            /\ progressChan' = progressChan + 1
            /\ pc' = Move(pc, "progress", "release")
            /\ UNCHANGED panicked
  /\ UNCHANGED <<mainPc, i, wg, result, semaphore, results, resultsClosed, progressClosed,
                 closerPc, reporterPc, completed, printed, stats, calls, produced, consumed,
                 closes>>

Release_NoReceive ==
  /\ pc["release"] > 0
  /\ semaphore > 0
  /\ Step
  /\ pc' = Move(pc, "release", "done")
  /\ UNCHANGED <<mainPc, i, wg, result, semaphore, results, resultsClosed, progressChan,
                 progressClosed, closerPc, reporterPc, completed, printed, stats, panicked,
                 calls, produced, consumed, closes>>

\* <-semaphore: blocks while the channel is empty.
Release ==
  /\ pc["release"] > 0
  /\ semaphore > 0
  /\ Step
  /\ semaphore' = semaphore - 1
  /\ pc' = Move(pc, "release", "done")
  /\ UNCHANGED <<mainPc, i, wg, result, results, resultsClosed, progressChan,
                 progressClosed, closerPc, reporterPc, completed, printed, stats, panicked,
                 calls, produced, consumed, closes>>

\* defer wg.Done()
Done ==
  /\ pc["done"] > 0
  /\ Step
  /\ wg' = wg - 1
  /\ pc' = Move(pc, "done", "exited")
  /\ UNCHANGED <<mainPc, i, result, semaphore, results, resultsClosed, progressChan,
                 progressClosed, closerPc, reporterPc, completed, printed, stats, panicked,
                 calls, produced, consumed, closes>>

WaitReturns_EarlyByOne(counter) == counter <= 1

\* wg.Wait() returns when the counter is zero.
WaitReturns(counter) == counter = 0

Wait ==
  /\ closerPc = "wait"
  /\ WaitReturns(wg)
  /\ Step
  /\ closerPc' = "closeResults"
  /\ UNCHANGED <<mainPc, i, wg, pc, result, semaphore, results, resultsClosed, progressChan,
                 progressClosed, reporterPc, completed, printed, stats, panicked, calls,
                 produced, consumed, closes>>

\* close(results): panics on a closed channel.
CloseResults ==
  /\ closerPc = "closeResults"
  /\ Step
  /\ panicked' = resultsClosed
  /\ resultsClosed' = TRUE
  /\ closes' = [closes EXCEPT ![1] = @ + 1]
  /\ closerPc' = "closeProgress"
  /\ UNCHANGED <<mainPc, i, wg, pc, result, semaphore, results, progressChan,
                 progressClosed, reporterPc, completed, printed, stats, calls, produced,
                 consumed>>

\* close(progressChan)
CloseProgress ==
  /\ closerPc = "closeProgress"
  /\ Step
  /\ panicked' = progressClosed
  /\ progressClosed' = TRUE
  /\ closes' = [closes EXCEPT ![2] = @ + 1]
  /\ closerPc' = "exited"
  /\ UNCHANGED <<mainPc, i, wg, pc, result, semaphore, results, resultsClosed, progressChan,
                 reporterPc, completed, printed, stats, calls, produced, consumed>>

\* for result := range results { ... }: one iteration.
Collect ==
  /\ mainPc = "collect"
  /\ Len(results) > 0
  /\ Step
  /\ stats' = Consume(stats, Head(results))
  /\ consumed' = consumed (+) SetToBag({Head(results)})
  /\ results' = Tail(results)
  /\ UNCHANGED <<mainPc, i, wg, pc, result, semaphore, resultsClosed, progressChan,
                 progressClosed, closerPc, reporterPc, completed, printed, panicked, calls,
                 produced, closes>>

Return_BeforeClose ==
  /\ mainPc = "collect"
  /\ Len(results) = 0
  /\ Step
  /\ stats' = Finalize(stats, clock)
  /\ mainPc' = "returned"
  /\ UNCHANGED <<i, wg, pc, result, semaphore, results, resultsClosed, progressChan,
                 progressClosed, closerPc, reporterPc, completed, printed, panicked, calls,
                 produced, consumed, closes>>

\* The range loop ends on the closed, drained channel; the summary is computed and returned.
Return ==
  /\ mainPc = "collect"
  /\ Len(results) = 0
  /\ resultsClosed
  /\ Step
  /\ stats' = Finalize(stats, clock)
  /\ mainPc' = "returned"
  /\ UNCHANGED <<i, wg, pc, result, semaphore, results, resultsClosed, progressChan,
                 progressClosed, closerPc, reporterPc, completed, printed, panicked, calls,
                 produced, consumed, closes>>

Progress_TenthOnly ==
  /\ reporterPc = "range"
  /\ progressChan > 0
  /\ Step
  /\ progressChan' = progressChan - 1
  /\ completed' = completed + 1
  /\ printed' = IF (completed + 1) % 10 = 0
                  THEN Append(printed, completed + 1)
                  ELSE printed
  /\ UNCHANGED <<mainPc, i, wg, pc, result, semaphore, results, resultsClosed,
                 progressClosed, closerPc, reporterPc, stats, panicked, calls, produced,
                 consumed, closes>>

\* for range progressChan { completed++; if ... { fmt.Printf(...) } }: one iteration.
Progress ==
  /\ reporterPc = "range"
  /\ progressChan > 0
  /\ Step
  /\ progressChan' = progressChan - 1
  /\ completed' = completed + 1
  /\ printed' = IF (completed + 1) % 10 = 0 \/ completed + 1 = numRequests
                  THEN Append(printed, completed + 1)
                  ELSE printed
  /\ UNCHANGED <<mainPc, i, wg, pc, result, semaphore, results, resultsClosed,
                 progressClosed, closerPc, reporterPc, stats, panicked, calls, produced,
                 consumed, closes>>

\* The range loop of the progress goroutine ends.
ProgressEnd ==
  /\ reporterPc = "range"
  /\ progressChan = 0
  /\ progressClosed
  /\ Step
  /\ reporterPc' = "exited"
  /\ UNCHANGED <<mainPc, i, wg, pc, result, semaphore, results, resultsClosed, progressChan,
                 progressClosed, closerPc, completed, printed, stats, panicked, calls,
                 produced, consumed, closes>>

(***************************************************************************)
(* CategorizeError on its own: a call with arguments drawn from CatInputs. *)
(***************************************************************************)
StatusCodes == {0, 100, 200, 299, 300, 399, 400, 404, 499, 500, 503}
Bodies == {EmptyString, str_hello, str_other, str_ohhi}

CatInputs ==
  [err : Errors \cup {nil}, statusCode : StatusCodes, expectedStatus : {200, 404, 500},
   expectedBody : {EmptyString, str_hello}, responseBody : Bodies]

InitClassify ==
  /\ InitRun(1, 1)
  /\ config = RunConfig
  /\ catArgs \in CatInputs
  /\ catResult = NoCategory
  /\ IdleMakeRequest
  /\ IdlePercentile
  /\ IdleMain

Categorize ==
  /\ catResult = NoCategory
  /\ catResult' = CategorizeError(catArgs.err, catArgs.statusCode, catArgs.expectedStatus,
                                  catArgs.expectedBody, catArgs.responseBody)
  /\ UNCHANGED <<catArgs, runVars, execVars, pctResult, mainVars>>

NextClassify == Categorize

SpecClassify == InitClassify /\ [][NextClassify]_vars

(***************************************************************************)
(* MakeRequest on its own: a call with a configuration from ExecConfigs    *)
(* and an answer of the transport from ExecAnswers.                        *)
(***************************************************************************)
text_parse == <<"b", "a", "d", " ", "u", "r", "l">>

ExecConfigs ==
  { RequestConfig("http://test", es, eb, 1 * Second, 0) : es \in {200, 500}, eb \in {EmptyString, str_hello} }

\* The error of http.NewRequestWithContext for a URL that does not parse.
NewRequestErrors == { UrlError(errorString(text_parse)) }

\* Errors of client.Do, each a *url.Error around what the transport hit: the host name did
\* not resolve, the connection was refused, the name resolution or the request timed out,
\* the certificate was not accepted.
DoErrNoSuchHost == UrlError(OpErrorOf(str_dial, DNSError(FALSE, text_noSuchHost)))
DoErrRefused == UrlError(OpErrorOf(str_dial, errorString(text_refused)))
DoErrLookupTimeout == UrlError(OpErrorOf(str_dial, DNSError(TRUE, text_noSuchHost)))
DoErrDeadline == UrlError(DeadlineExceeded)
DoErrCertificate == UrlError(errorString(text_x509))

DoErrors == {DoErrNoSuchHost, DoErrRefused, DoErrLookupTimeout, DoErrDeadline, DoErrCertificate}

\* Errors of reading the response body: the connection broke, the deadline passed.
ReadErrors == { errorString(text_eof), DeadlineExceeded }

ExecAnswers ==
  { Answer(e, nil, 0, EmptyString, nil, 1) : e \in NewRequestErrors }
  \cup { Answer(nil, e, 0, EmptyString, nil, 1) : e \in DoErrors }
  \cup { Answer(nil, nil, st, b, e, 1) :
           st \in {200, 300, 404, 500}, b \in Bodies, e \in ReadErrors \cup {nil} }

InitExec ==
  /\ InitRun(1, 1)
  /\ config = RunConfig
  /\ IdleCategorize
  /\ IdlePercentile
  /\ execConfig \in ExecConfigs
  /\ execAnswer \in ExecAnswers
  /\ execResult = NoResult
  /\ IdleMain

Execute ==
  /\ execResult = NoResult
  /\ execResult' = MakeRequest(execConfig, execAnswer)
  /\ UNCHANGED <<execConfig, execAnswer, runVars, catVars, pctResult, mainVars>>

NextExec == Execute

SpecExec == InitExec /\ [][NextExec]_vars

(***************************************************************************)
(* CollectAndCalculateStats on its own, as its tests call it: the results  *)
(* channel is filled with a stream and closed, then drained; afterwards    *)
(* percentile is called on the sorted times.                               *)
(***************************************************************************)
MaxStream == 5

\* The results of the streams, as makeResult builds them (times in units of 100ms in the
\* tests' scenario), and a timed out request without status.
CollectResults ==
  { TestResult(TRUE, 200, 1, ErrorTypeNone, EmptyMessage, 1),
    TestResult(TRUE, 200, 2, ErrorTypeNone, EmptyMessage, 2),
    TestResult(FALSE, 500, 3, ErrorTypeServerError, EmptyMessage, 3),
    TestResult(FALSE, 404, 4, ErrorTypeClientError, EmptyMessage, 4),
    TestResult(TRUE, 200, 5, ErrorTypeNone, EmptyMessage, 5),
    TestResult(FALSE, 0, 5, ErrorTypeTimeout, EmptyMessage, 0) }

Streams == UNION { [1..n -> CollectResults] : n \in 0..MaxStream }

Percents == {50, 95, 99, 100}

InitCollect ==
  /\ results \in Streams
  /\ numRequests = Len(results)
  /\ concurrency = 1
  /\ mainPc = "collect"
  /\ i = numRequests
  /\ wg = 0
  /\ pc = [p \in Positions |-> IF p = "exited" THEN numRequests ELSE 0]
  /\ result = EmptyBag
  /\ semaphore = 0
  /\ resultsClosed = TRUE
  /\ progressChan = 0
  /\ progressClosed = TRUE
  /\ closerPc = "exited"
  /\ reporterPc = "exited"
  /\ completed = 0
  /\ printed = << >>
  /\ stats = InitStats
  /\ panicked = FALSE
  /\ calls = numRequests
  /\ produced = SeqToBag(results)
  /\ consumed = EmptyBag
  /\ closes = <<1, 1>>
  /\ clock = 0
  /\ config = RunConfig
  /\ IdleCategorize
  /\ IdleMakeRequest
  /\ IdlePercentile
  /\ IdleMain

\* percentile(stats.ResponseTimes, p) on the summary's sorted times.
Percentile ==
  /\ mainPc = "returned"
  /\ pctResult = NoPercentile
  /\ \E p \in Percents : pctResult' = <<p, percentile(stats.ResponseTimes, p)>>
  /\ UNCHANGED <<runVars, catVars, execVars, mainVars>>

NextCollect ==
  \/ Collect
  \/ Return
  \/ Percentile

SpecCollect == InitCollect /\ [][NextCollect]_vars

(***************************************************************************)
(* The run of RunLoadTest.                                                 *)
(***************************************************************************)
(***************************************************************************)
(* The progress goroutine on its own: a run of numRequests requests in     *)
(* which every worker has finished and the channels are closed before the  *)
(* progress goroutine and the collector get to run.                        *)
(***************************************************************************)
MaxProgress == 21

\* Steps of the run up to that state: per worker the launch and its six statements, then
\* the end of the launch loop, wg.Wait and the two closes.
StepsOfWorkers(n) == 7 * n + 4

InitProgress ==
  /\ numRequests \in 1..MaxProgress
  /\ concurrency = 1
  /\ mainPc = "collect"
  /\ i = numRequests
  /\ wg = 0
  /\ pc = [p \in Positions |-> IF p = "exited" THEN numRequests ELSE 0]
  /\ result = EmptyBag
  /\ semaphore = 0
  /\ results = [k \in 1..numRequests |->
                  MakeRequest(RunConfig, Answer(nil, nil, 200, str_hello, nil, 1))]
  /\ resultsClosed = TRUE
  /\ progressChan = numRequests
  /\ progressClosed = TRUE
  /\ closerPc = "exited"
  /\ reporterPc = "range"
  /\ completed = 0
  /\ printed = << >>
  /\ stats = InitStats
  /\ panicked = FALSE
  /\ calls = numRequests
  /\ produced = SeqToBag(results)
  /\ consumed = EmptyBag
  /\ closes = <<1, 1>>
  /\ clock = StepsOfWorkers(numRequests)
  /\ config = RunConfig
  /\ IdleCategorize
  /\ IdleMakeRequest
  /\ IdlePercentile
  /\ IdleMain

NextProgress ==
  \/ Progress
  \/ ProgressEnd
  \/ Collect
  \/ Return

SpecProgress == InitProgress /\ [][NextProgress]_vars

(***************************************************************************)
(* Runs of RunLoadTest whose requests meet every answer of the transport   *)
(* that the calls of MakeRequest on its own are given.                     *)
(***************************************************************************)
MaxOutcomeRequests == 1

InitOutcome ==
  /\ \E n \in 1..MaxOutcomeRequests : InitRun(n, 1)
  /\ config \in ExecConfigs
  /\ IdleCategorize
  /\ IdleMakeRequest
  /\ IdlePercentile
  /\ IdleMain

CallAny == CallOf(ExecAnswers)

NextOutcome ==
  \/ Launch
  \/ StartCloser
  \/ Acquire
  \/ CallAny
  \/ SendResult
  \/ SendProgress
  \/ Release
  \/ Done
  \/ Wait
  \/ CloseResults
  \/ CloseProgress
  \/ Collect
  \/ Return
  \/ Progress
  \/ ProgressEnd

SpecOutcome == InitOutcome /\ [][NextOutcome]_vars

(***************************************************************************)
(* The process: main parses the flags and either exits or calls            *)
(* RunLoadTest and prints the summary.                                     *)
(***************************************************************************)
MaxFlag == 2

\* -timeout values: invalid ones, small ones, and the smallest whose product with
\* time.Second no longer fits time.Duration.
TimeoutFlags == {-5, 0, 1, 2, MaxInt \div Second + 1}

FlagSets ==
  { Flags("http://test", r, c, 200, str_hello, t, j) :
      r \in -1..MaxFlag, c \in -1..MaxFlag, t \in TimeoutFlags, j \in BOOLEAN }

InitMain ==
  /\ flags \in FlagSets
  /\ parsed = NoParsed
  /\ mainPc = "parse"
  /\ numRequests = 0
  /\ concurrency = 0
  /\ config = ZeroConfig
  /\ i = 0
  /\ wg = 0
  /\ pc = [p \in Positions |-> 0]
  /\ result = EmptyBag
  /\ semaphore = 0
  /\ results = << >>
  /\ resultsClosed = FALSE
  /\ progressChan = 0
  /\ progressClosed = FALSE
  /\ closerPc = "unborn"
  /\ reporterPc = "unborn"
  /\ completed = 0
  /\ printed = << >>
  /\ stats = InitStats
  /\ panicked = FALSE
  /\ calls = 0
  /\ produced = EmptyBag
  /\ consumed = EmptyBag
  /\ closes = <<0, 0>>
  /\ clock = 0
  /\ IdleCategorize
  /\ IdleMakeRequest
  /\ IdlePercentile

\* cfg, requests, concurrency, outputJSON, err := parseAndValidateFlags()
ParseFlags ==
  /\ mainPc = "parse"
  /\ parsed' = parseAndValidateFlags(flags)
  /\ mainPc' = "checkErr"
  /\ UNCHANGED <<numRequests, concurrency, i, wg, pc, result, semaphore, results,
                 resultsClosed, progressChan, progressClosed, closerPc, reporterPc,
                 completed, printed, stats, panicked, calls, produced, consumed, closes,
                 clock, config, flags, harnessVars>>

\* if err != nil { fmt.Println("Error:", err); os.Exit(1) }
ExitOnError ==
  /\ mainPc = "checkErr"
  /\ parsed.err # nil
  /\ mainPc' = "exit1"
  /\ UNCHANGED <<numRequests, concurrency, i, wg, pc, result, semaphore, results,
                 resultsClosed, progressChan, progressClosed, closerPc, reporterPc,
                 completed, printed, stats, panicked, calls, produced, consumed, closes,
                 clock, config, mainVars, harnessVars>>

\* runner.RunLoadTest(cfg, requests, concurrency, ...): the call and the function's steps up
\* to the launch loop (channels made, start time taken, progress goroutine started).
CallRunLoadTest ==
  /\ mainPc = "checkErr"
  /\ parsed.err = nil
  /\ config' = parsed.cfg
  /\ numRequests' = parsed.requests
  /\ concurrency' = parsed.concurrency
  /\ reporterPc' = "range"
  /\ mainPc' = "launch"
  /\ UNCHANGED <<i, wg, pc, result, semaphore, results, resultsClosed, progressChan,
                 progressClosed, closerPc, completed, printed, stats, panicked, calls,
                 produced, consumed, closes, clock, mainVars, harnessVars>>

\* if outputJSON { stats.PrintJSONStats(...) } else { stats.PrintDetailedStats(...) }
PrintStats ==
  /\ mainPc = "returned"
  /\ mainPc' = IF parsed.outputJSON THEN "printedJSON" ELSE "printedDetailed"
  /\ UNCHANGED <<numRequests, concurrency, i, wg, pc, result, semaphore, results,
                 resultsClosed, progressChan, progressClosed, closerPc, reporterPc,
                 completed, printed, stats, panicked, calls, produced, consumed, closes,
                 clock, config, mainVars, harnessVars>>

Next ==
  \/ Launch
  \/ StartCloser
  \/ Acquire
  \/ Call
  \/ SendResult
  \/ SendProgress
  \/ Release
  \/ Done
  \/ Wait
  \/ CloseResults
  \/ CloseProgress
  \/ Collect
  \/ Return
  \/ Progress
  \/ ProgressEnd

Spec == Init /\ [][Next]_vars

\* Goroutines that can take a step eventually take one.
FairSpec == Spec /\ WF_vars(Next)

NextMain ==
  \/ ParseFlags
  \/ ExitOnError
  \/ CallRunLoadTest
  \/ Next
  \/ PrintStats

SpecMain == InitMain /\ [][NextMain]_vars

(***************************************************************************)
(* Properties.                                                             *)
(***************************************************************************)
\* Number of elements of bag b that satisfy the success flag value flag.
CountSuccess(b, flag) ==
  BagCardinality([r \in {x \in BagToSet(b) : x.Success = flag} |-> b[r]])

\* Workers between acquiring and releasing the admission gate.
InFlight == pc["call"] + pc["send"] + pc["progress"] + pc["release"]

\* Workers that have made their MakeRequest call.
PastCall == pc["send"] + pc["progress"] + pc["release"] + pc["done"] + pc["exited"]

\* Worker goroutines created so far.
Created == pc["acquire"] + InFlight + pc["done"] + pc["exited"]

Returned == mainPc = "returned"

\* C1: the summary RunLoadTest returns has TotalRequests equal to numRequests, for every
\* concurrency limit and every interleaving of the workers.
C1_TotalEqualsRequested == Returned => stats.TotalRequests = numRequests

\* A run in which workers had to queue for the gate has returned its summary.
C1_Witness == Returned /\ numRequests > concurrency /\ stats.TotalRequests >= 2

\* C2: at no instant are more than concurrency workers between acquiring and releasing
\* the admission gate, so never more than concurrency MakeRequest calls run at once.
C2_ConcurrencyLimit == InFlight <= concurrency /\ pc["call"] <= concurrency

\* The gate is full of workers inside MakeRequest while another worker waits for admission.
C2_Witness == pc["call"] = concurrency /\ concurrency >= 2 /\ pc["acquire"] > 0

\* C3: nothing is lost and nothing is duplicated between MakeRequest and the collector: the
\* results returned so far are exactly those held by workers, buffered in the channel or
\* consumed, and at return the consumed results are the results of the numRequests calls.
C3_ExactlyOnce ==
  /\ produced = (result (+) SeqToBag(results)) (+) consumed
  /\ BagCardinality(consumed) = stats.TotalRequests
  /\ Returned => consumed = produced /\ BagCardinality(produced) = numRequests

\* A run with two different results has been consumed completely.
C3_Witness == Returned /\ Cardinality(BagToSet(consumed)) >= 2

\* C4: the results channel is closed only after all numRequests workers have enqueued
\* their result and finished.
C4_CloseAfterAll ==
  resultsClosed => /\ stats.TotalRequests + Len(results) = numRequests
                   /\ pc["exited"] = numRequests

\* The channel is closed while results are still buffered for the collector.
C4_Witness == resultsClosed /\ Len(results) >= 2 /\ mainPc = "collect"

\* C5: under fair scheduling no state before the return is a deadlock, and eventually all
\* workers have been admitted and have finished, the stream is closed and RunLoadTest has
\* returned.
C5_Terminates ==
  /\ [](~Returned => ENABLED Next)
  /\ <>(Returned /\ resultsClosed /\ pc["exited"] = numRequests)

\* A run with more workers than gate slots has returned.
C5_Witness == Returned /\ numRequests > concurrency /\ pc["exited"] = numRequests /\ semaphore = 0

\* C6: TotalRequests = SuccessfulReqs + FailedReqs after every consumed result and in the
\* final summary.
C6_TotalIsSum == stats.TotalRequests = stats.SuccessfulReqs + stats.FailedReqs

\* The collector has counted a success and a failure.
C6_Witness == stats.SuccessfulReqs >= 1 /\ stats.FailedReqs >= 1

\* C7: MakeRequest is called once per worker (no retry after a failure), numRequests times
\* over the run, and all numRequests workers are created whatever the gate's state.
C7_OneAttemptEach ==
  /\ calls = PastCall
  /\ mainPc = "launch" => Created = i /\ (i < numRequests => ENABLED Launch)
  /\ mainPc # "launch" => Created = numRequests
  /\ Returned => calls = numRequests

\* A run with more workers than gate slots and with a failed call has returned.
C7_Witness ==
  Returned /\ numRequests > concurrency /\ stats.FailedReqs >= 1 /\ calls = numRequests

\* C8: failures are data: the run returns with SuccessfulReqs the number of calls that
\* returned Success = true and FailedReqs the number that returned Success = false, and no
\* goroutine panics; an all-failed run has FailedReqs = TotalRequests = numRequests.
C8_FailuresAreData ==
  /\ ~panicked
  /\ Returned => /\ stats.SuccessfulReqs = CountSuccess(produced, TRUE)
                 /\ stats.FailedReqs = CountSuccess(produced, FALSE)
                 /\ (CountSuccess(produced, TRUE) = 0 =>
                       stats.FailedReqs = numRequests /\ stats.TotalRequests = numRequests)
                 /\ (CountSuccess(produced, FALSE) = 0 =>
                       stats.SuccessfulReqs = numRequests /\ stats.FailedReqs = 0)

\* An all-failed run of at least two requests has returned its summary.
C8_Witness ==
  Returned /\ numRequests >= 2 /\ stats.SuccessfulReqs = 0 /\ stats.FailedReqs = numRequests

\* C9: after every consumed result and in the final summary the counts of ErrorBreakdown
\* sum to FailedReqs.
C9_BreakdownSumsToFailed == BagCardinality(stats.ErrorBreakdown) = stats.FailedReqs

\* Failures of two kinds, one of them without a status code, have been counted.
C9_Witness ==
  /\ stats.FailedReqs >= 2
  /\ Cardinality(BagToSet(stats.ErrorBreakdown)) >= 2
  /\ BagIn(ErrorTypeTimeout, stats.ErrorBreakdown)

\* C10: for a transport error CategorizeError returns the kind of the first matching rule,
\* whatever the status and the bodies: timeout-class net.Error -> Timeout, *net.DNSError ->
\* DNS, *net.OpError with Op "dial" -> Connection, *url.Error -> URL, text containing "tls"
\* or "certificate" -> TLS, context.DeadlineExceeded -> Timeout, otherwise Network.
IsTimeoutClass(e) == e.dyn \in NetErrorTypes /\ e.timeout
IsDNS(e) == e.dyn = "*net.DNSError"
IsDial(e) == e.dyn = "*net.OpError" /\ e.Op = str_dial
IsURL(e) == e.dyn = "*url.Error"
IsTLSText(e) == Contains(e.text, str_tls) \/ Contains(e.text, str_certificate)
IsDeadline(e) == e = DeadlineExceeded

C10_TransportRuleOrder ==
  (catResult # NoCategory /\ catArgs.err # nil) =>
    LET e == catArgs.err
        kind == catResult[1]
    IN  /\ IsTimeoutClass(e) => kind = ErrorTypeTimeout
        /\ (~IsTimeoutClass(e) /\ IsDNS(e)) => kind = ErrorTypeDNS
        /\ (~IsTimeoutClass(e) /\ ~IsDNS(e) /\ IsDial(e)) => kind = ErrorTypeConnection
        /\ (~IsTimeoutClass(e) /\ ~IsDNS(e) /\ ~IsDial(e) /\ IsURL(e)) => kind = ErrorTypeURL
        /\ (~IsTimeoutClass(e) /\ ~IsDNS(e) /\ ~IsDial(e) /\ ~IsURL(e) /\ IsTLSText(e))
             => kind = ErrorTypeTLS
        /\ (~IsTimeoutClass(e) /\ ~IsDNS(e) /\ ~IsDial(e) /\ ~IsURL(e) /\ ~IsTLSText(e)
              /\ IsDeadline(e)) => kind = ErrorTypeTimeout
        /\ (~IsTimeoutClass(e) /\ ~IsDNS(e) /\ ~IsDial(e) /\ ~IsURL(e) /\ ~IsTLSText(e)
              /\ ~IsDeadline(e)) => kind = ErrorTypeNetwork

\* A DNS error that is also a timeout has been classified, with a status that would
\* otherwise be a server error.
C10_Witness ==
  /\ catResult # NoCategory
  /\ IsDNS(catArgs.err) /\ IsTimeoutClass(catArgs.err)
  /\ catArgs.statusCode = 500 /\ catArgs.expectedStatus = 200
  /\ catResult[1] = ErrorTypeTimeout

\* C11: with no transport error and a status different from the expected one the kind is
\* ServerError from 500 up, ClientError for 400..499, Redirect for 300..399 and HTTPStatus
\* for every other status; when the status equals the expected one none of the four is
\* returned, whatever the status.
StatusKinds == {ErrorTypeServerError, ErrorTypeClientError, ErrorTypeRedirect,
                ErrorTypeHTTPStatus}

C11_StatusLadder ==
  (catResult # NoCategory /\ catArgs.err = nil) =>
    LET sc == catArgs.statusCode
        kind == catResult[1]
    IN  IF sc # catArgs.expectedStatus
          THEN /\ sc >= 500 => kind = ErrorTypeServerError
               /\ (400 <= sc /\ sc <= 499) => kind = ErrorTypeClientError
               /\ (300 <= sc /\ sc <= 399) => kind = ErrorTypeRedirect
               /\ sc < 300 => kind = ErrorTypeHTTPStatus
          ELSE kind \notin StatusKinds

\* Status 400 when 200 is expected has been classified as a client error.
C11_Witness ==
  /\ catResult # NoCategory /\ catArgs.err = nil
  /\ catArgs.statusCode = 400 /\ catArgs.expectedStatus = 200
  /\ catResult[1] = ErrorTypeClientError

\* C12: BodyValidation is returned exactly when there is no transport error, the status
\* equals the expected one, the expected substring is not empty and does not occur in the
\* body; a status mismatch comes first, an empty expected substring is never checked.
C12_BodyValidationExactly ==
  catResult # NoCategory =>
    (catResult[1] = ErrorTypeBodyValidation
       <=> /\ catArgs.err = nil
           /\ catArgs.statusCode = catArgs.expectedStatus
           /\ catArgs.expectedBody # EmptyString
           /\ ~Contains(catArgs.responseBody, catArgs.expectedBody))

\* A response with both the wrong status and the wrong body has been given a status kind.
C12_Witness ==
  /\ catResult # NoCategory /\ catArgs.err = nil
  /\ catArgs.statusCode = 404 /\ catArgs.expectedStatus = 200
  /\ catArgs.expectedBody = str_hello /\ catArgs.responseBody = str_other
  /\ catResult[1] = ErrorTypeClientError

\* C13: CategorizeError returns one of the twelve kinds for every input; the kind is None
\* iff there is no transport error, the status is the expected one and the expected
\* substring is empty or contained in the body; the message is empty iff the kind is None.
C13_TotalAndNone ==
  catResult # NoCategory =>
    /\ catResult[1] \in ErrorType
    /\ catResult[1] = ErrorTypeNone
         <=> /\ catArgs.err = nil
             /\ catArgs.statusCode = catArgs.expectedStatus
             /\ (catArgs.expectedBody = EmptyString
                   \/ Contains(catArgs.responseBody, catArgs.expectedBody))
    /\ catResult[2] = EmptyMessage <=> catResult[1] = ErrorTypeNone

\* A response with the expected status whose body contains the expected text inside a
\* longer body has been classified as a success.
C13_Witness ==
  /\ catResult # NoCategory /\ catArgs.err = nil
  /\ catArgs.statusCode = 404 /\ catArgs.expectedStatus = 404
  /\ catArgs.expectedBody = str_hello /\ catArgs.responseBody = str_ohhi
  /\ catResult = <<ErrorTypeNone, EmptyMessage>>

\* C15: when client.Do fails because the host name did not resolve (not a timeout) the
\* result's ErrorType is DNS, and when it fails because the connection was refused it is
\* Connection, for the error value as MakeRequest hands it to CategorizeError.
C15_DNSAndConnectionKinds ==
  execResult # NoResult =>
    /\ execAnswer.doErr = DoErrNoSuchHost => execResult.ErrorType = ErrorTypeDNS
    /\ execAnswer.doErr = DoErrRefused => execResult.ErrorType = ErrorTypeConnection

\* C16: for every result of MakeRequest Success is true iff ErrorType is None, on every
\* path; the expected status with the expected text in the body is a success, a 500 when
\* 200 is expected is a ServerError with StatusCode 500, a body without the expected text
\* is a BodyValidation failure, a request that exceeded its timeout is a Timeout failure.
GotResponse(a) == a.newReqErr = nil /\ a.doErr = nil /\ a.readErr = nil

C16_SuccessIffNone ==
  execResult # NoResult =>
    LET a == execAnswer
        body == LimitReader(a.body, BodyCap)
    IN  /\ execResult.Success <=> execResult.ErrorType = ErrorTypeNone
        /\ (GotResponse(a) /\ a.status = execConfig.ExpectedStatus
              /\ Contains(body, execConfig.ExpectedBody)) => execResult.Success
        /\ (GotResponse(a) /\ a.status = 500 /\ execConfig.ExpectedStatus = 200)
             => /\ ~execResult.Success
                /\ execResult.ErrorType = ErrorTypeServerError
                /\ execResult.StatusCode = 500
        /\ (GotResponse(a) /\ a.status = execConfig.ExpectedStatus
              /\ execConfig.ExpectedBody # EmptyString
              /\ ~Contains(body, execConfig.ExpectedBody))
             => ~execResult.Success /\ execResult.ErrorType = ErrorTypeBodyValidation
        /\ (a.newReqErr = nil /\ a.doErr = DoErrDeadline)
             => ~execResult.Success /\ execResult.ErrorType = ErrorTypeTimeout

\* A response with the expected status and a body without the expected text has been
\* returned as a failure.
C16_Witness ==
  /\ execResult # NoResult /\ GotResponse(execAnswer)
  /\ execAnswer.status = 200 /\ execConfig.ExpectedStatus = 200
  /\ execConfig.ExpectedBody = str_hello /\ execAnswer.body = str_other
  /\ ~execResult.Success /\ execResult.ErrorType = ErrorTypeBodyValidation

(***************************************************************************)
(* The summary of CollectAndCalculateStats against the consumed results.   *)
(***************************************************************************)
\* The number of consumed results that satisfy P.
ConsumedCount(P(_)) ==
  LET S == {r \in BagToSet(consumed) : P(r)}
  IN  BagCardinality([r \in S |-> consumed[r]])

RECURSIVE SumTimes(_)
SumTimes(S) ==
  IF S = {} THEN 0
  ELSE LET r == CHOOSE x \in S : TRUE
       IN  consumed[r] * r.ResponseTime + SumTimes(S \ {r})

RECURSIVE SumSizes(_)
SumSizes(S) ==
  IF S = {} THEN 0
  ELSE LET r == CHOOSE x \in S : TRUE
       IN  consumed[r] * r.ResponseSize + SumSizes(S \ {r})

ConsumedTimes == {r.ResponseTime : r \in BagToSet(consumed)}

\* The element at 0-based position k of the consumed times in ascending order, without
\* sorting: fewer than k+1 times are smaller, at least k+1 are not larger.
OrderStatistic(k) ==
  CHOOSE v \in ConsumedTimes :
    /\ ConsumedCount(LAMBDA r : r.ResponseTime < v) <= k
    /\ k < ConsumedCount(LAMBDA r : r.ResponseTime <= v)

Min(a, b) == IF a < b THEN a ELSE b

PercentileIndex(len, p) == Min((len * p) \div 100, len - 1)

\* C17: for a non-empty stream the median, P95 and P99 of the summary are the elements of
\* the ascending times at 0-based index min(floor(len * p / 100), len - 1) for p = 50, 95,
\* 99; percentile of an empty sequence is 0, of a non-empty one at p = 100 the last
\* (largest) element; the times 1..5 give median 3, P95 5 and P99 5.
C17_PercentileLaw ==
  LET len == BagCardinality(consumed) IN
  /\ (Returned /\ len > 0) =>
       /\ stats.MedianTime = OrderStatistic(PercentileIndex(len, 50))
       /\ stats.P95Time = OrderStatistic(PercentileIndex(len, 95))
       /\ stats.P99Time = OrderStatistic(PercentileIndex(len, 99))
       /\ (len = 5 /\ ConsumedTimes = 1..5) =>
            stats.MedianTime = 3 /\ stats.P95Time = 5 /\ stats.P99Time = 5
  /\ (Returned /\ pctResult # NoPercentile) =>
       /\ len = 0 => pctResult[2] = 0
       /\ len > 0 => pctResult[2] = OrderStatistic(PercentileIndex(len, pctResult[1]))
       /\ (len > 0 /\ pctResult[1] = 100) =>
            \A r \in BagToSet(consumed) : r.ResponseTime <= pctResult[2]

\* A stream of two results, the slower one first, has been summarised: the index of the
\* median is 1, and percentile at 100 has returned the last element.
C17_Witness ==
  /\ Returned /\ BagCardinality(consumed) = 2 /\ ConsumedTimes = {2, 4}
  /\ stats.MedianTime = 4
  /\ pctResult = <<100, 4>>

\* C18: the success rate of the summary is 0 for an empty stream and
\* 100 * SuccessfulReqs / TotalRequests otherwise, a number between 0 and 100; the
\* quotient is never taken with TotalRequests = 0.
C18_SuccessRate ==
  Returned =>
    LET rate == stats.SuccessRate IN
    /\ rate[2] > 0
    /\ stats.TotalRequests = BagCardinality(consumed)
    /\ stats.SuccessfulReqs = ConsumedCount(LAMBDA r : r.Success)
    /\ IF stats.TotalRequests = 0
         THEN rate[1] = 0
         ELSE /\ rate[1] * stats.TotalRequests = 100 * stats.SuccessfulReqs * rate[2]
              /\ 0 <= rate[1] /\ rate[1] <= 100 * rate[2]

\* A stream of three results, two of them successes, has been summarised: the rate is
\* 200/3.
C18_Witness ==
  /\ Returned /\ stats.TotalRequests = 3 /\ stats.SuccessfulReqs = 2
  /\ stats.SuccessRate = <<200, 3>>

StatusesSeen == {r.StatusCode : r \in BagToSet(consumed)}

BreakdownCount(b, k) == IF k \in DOMAIN b THEN b[k] ELSE 0

ErrorBreakdownAndData ==
  /\ \A k \in ErrorType \ {ErrorTypeNone} :
       BreakdownCount(stats.ErrorBreakdown, k)
         = ConsumedCount(LAMBDA r : ~r.Success /\ r.ErrorType = k)
  /\ stats.TotalDataTransfer = SumSizes(BagToSet(consumed))

\* C19 as stated: for every status code s of a consumed result, StatusBreakdown[s] is the
\* number of consumed results with that status; ErrorBreakdown[k] is the number of
\* failed results of kind k; TotalDataTransfer is the sum of the sizes.
C19_BreakdownsAsStated ==
  Returned =>
    /\ \A s \in StatusesSeen \cup DOMAIN stats.StatusBreakdown :
         BreakdownCount(stats.StatusBreakdown, s)
           = ConsumedCount(LAMBDA r : r.StatusCode = s)
    /\ ErrorBreakdownAndData

\* C19 amended: for every status code s > 0, StatusBreakdown[s] is the number of consumed
\* results (successes and failures alike) with that status, and results with status 0
\* have no entry; ErrorBreakdown[k] is the number of failed results of kind k;
\* TotalDataTransfer is the sum of the sizes.
C19_Breakdowns ==
  Returned =>
    /\ \A s \in StatusesSeen \cup DOMAIN stats.StatusBreakdown :
         BreakdownCount(stats.StatusBreakdown, s)
           = IF s > 0 THEN ConsumedCount(LAMBDA r : r.StatusCode = s) ELSE 0
    /\ ErrorBreakdownAndData

\* A stream with a success, a failure with a status and a failure without a status has
\* been summarised.
C19_Witness ==
  /\ Returned
  /\ StatusesSeen = {0, 200, 500}
  /\ BreakdownCount(stats.StatusBreakdown, 200) > 0
  /\ BreakdownCount(stats.StatusBreakdown, 500) > 0
  /\ BreakdownCount(stats.ErrorBreakdown, ErrorTypeTimeout) > 0

\* C20: for a non-empty stream MinTime is the smallest and MaxTime the largest elapsed
\* time consumed, and AverageTime is the sum of the elapsed times divided by
\* TotalRequests (integer division), whatever the magnitudes of the elapsed times.
C20_MinMaxAverage ==
  (Returned /\ BagCardinality(consumed) > 0) =>
    /\ stats.MinTime \in ConsumedTimes
    /\ \A t \in ConsumedTimes : stats.MinTime <= t
    /\ stats.MaxTime \in ConsumedTimes
    /\ \A t \in ConsumedTimes : t <= stats.MaxTime
    /\ stats.AverageTime = SumTimes(BagToSet(consumed)) \div BagCardinality(consumed)

(***************************************************************************)
(* main and parseAndValidateFlags.                                         *)
(***************************************************************************)
\* RunLoadTest has been called by main.
RunLoadTestCalled == mainPc \notin {"parse", "checkErr", "exit1"}

\* The error messages the invalid flags call for.
FlagErrors ==
  (IF flags.requests < 1
     THEN {Errorf("requests must be >= 1, got %d", flags.requests)} ELSE {})
  \cup (IF flags.concurrency < 1
          THEN {Errorf("concurrency must be >= 1, got %d", flags.concurrency)} ELSE {})
  \cup (IF flags.timeout < 1
          THEN {Errorf("timeout must be >= 1, got %d", flags.timeout)} ELSE {})

\* C21: parseAndValidateFlags returns an error with the stated message whenever requests,
\* concurrency or timeout is below 1, and main never calls RunLoadTest after such an
\* error; for valid flags it returns the given values, Timeout being the timeout flag in
\* seconds, and no error.
C21_ValidationGuardsTheCore ==
  /\ parsed # NoParsed =>
       IF FlagErrors # {}
         THEN parsed.err \in FlagErrors
         ELSE /\ parsed.err = nil
              /\ parsed.requests = flags.requests
              /\ parsed.concurrency = flags.concurrency
              /\ parsed.outputJSON = flags.json
              /\ parsed.cfg.URL = flags.url
              /\ parsed.cfg.ExpectedStatus = flags.status
              /\ parsed.cfg.ExpectedBody = flags.body
              /\ parsed.cfg.Timeout = flags.timeout * Second
  /\ RunLoadTestCalled => FlagErrors = {} /\ parsed.err = nil

\* C22: every RequestConfig handed to RunLoadTest, and so to every MakeRequest, has
\* Timeout > 0 and Concurrency >= 1.
C22_ConfigInvariant ==
  RunLoadTestCalled => config.Timeout > 0 /\ config.Concurrency >= 1

(***************************************************************************)
(* MakeRequest: the status code of failures.                               *)
(***************************************************************************)
TransportKinds == {ErrorTypeDNS, ErrorTypeConnection, ErrorTypeTimeout, ErrorTypeTLS,
                   ErrorTypeURL, ErrorTypeNetwork}

\* C23: MakeRequest reports StatusCode 0 on every failure before a status line is obtained
\* (the request could not be built, or client.Do returned an error); when reading the
\* body fails after the status line, the observed status code is kept and the result is
\* still a failure of a transport kind.
C23_StatusOfFailures ==
  execResult # NoResult =>
    LET a == execAnswer IN
    /\ (a.newReqErr # nil \/ a.doErr # nil) =>
         ~execResult.Success /\ execResult.StatusCode = 0
    /\ (a.newReqErr = nil /\ a.doErr = nil /\ a.readErr # nil) =>
         /\ ~execResult.Success
         /\ execResult.StatusCode = a.status
         /\ execResult.ErrorType \in TransportKinds

\* The body of a 200 response that matches the expectation broke off while being read:
\* the result is a failure that keeps the status 200.
C23_Witness ==
  /\ execResult # NoResult /\ execAnswer.newReqErr = nil /\ execAnswer.doErr = nil
  /\ execAnswer.readErr = errorString(text_eof)
  /\ execAnswer.status = 200 /\ execConfig.ExpectedStatus = 200
  /\ execResult.StatusCode = 200 /\ ~execResult.Success
  /\ execResult.ErrorType = ErrorTypeNetwork

(***************************************************************************)
(* RunLoadTest: when the summary is computed.                              *)
(***************************************************************************)
\* The step in which CollectAndCalculateStats leaves its loop, samples the duration,
\* computes the summary and returns.
ReturnStep == mainPc = "collect" /\ mainPc' = "returned"

\* C24: the duration used for TestDuration and the throughput is sampled only after the
\* results channel has been closed and drained: when it is sampled all numRequests calls
\* of MakeRequest have completed, and it is the time elapsed since the start of the run.
C24_DurationAfterDrain ==
  /\ [](~Returned => stats.TestDuration = 0)
  /\ [][ReturnStep =>
          /\ resultsClosed /\ results = << >>
          /\ calls = numRequests /\ PastCall = numRequests
          /\ stats'.TestDuration = clock
          /\ stats'.RequestsPerSecond = Fraction(numRequests, clock)]_vars

\* A run of three requests has returned; its duration is longer than the three calls.
C24_Witness ==
  Returned /\ numRequests = 3 /\ calls = 3 /\ stats.TestDuration > 3

(***************************************************************************)
(* CollectAndCalculateStats: arrival order and the retained times.         *)
(***************************************************************************)
\* The results of a bag in one fixed order.
RECURSIVE BagToSeq(_)
BagToSeq(b) ==
  IF BagToSet(b) = {} THEN << >>
  ELSE LET r == CHOOSE x \in BagToSet(b) : TRUE
       IN  <<r>> \o BagToSeq(b (-) SetToBag({r}))

RECURSIVE ConsumeAll(_, _)
ConsumeAll(st, q) == IF q = << >> THEN st ELSE ConsumeAll(Consume(st, Head(q)), Tail(q))

\* The summary of a stream that arrives in the order q, for a run of the given duration.
SummaryOf(q, duration) == Finalize(ConsumeAll(InitStats, q), duration)

\* C25: the summary does not depend on the order of arrival: whatever order the results
\* of a stream arrived in, the counts, success rate, min, max, average, percentiles, both
\* breakdowns, total bytes and the sorted times are those of the same results arriving in
\* one fixed order.
C25_ArrivalOrderIrrelevant ==
  Returned => stats = SummaryOf(BagToSeq(consumed), stats.TestDuration)

\* Three results with different times and kinds have been summarised (the streams hold
\* them in all six orders).
C25_Witness ==
  /\ Returned /\ BagCardinality(consumed) = 3
  /\ {r.ResponseTime : r \in BagToSet(consumed)} = {1, 3, 4}
  /\ stats.ResponseTimes = <<1, 3, 4>>
  /\ stats.MedianTime = 3

Range(q) == {q[k] : k \in 1..Len(q)}

Occurrences(q, x) == Cardinality({k \in 1..Len(q) : q[k] = x})

\* C26: while draining, each consumed result appends its time to the retained sequence,
\* whose length is TotalRequests; in the summary of a non-empty stream the sequence is
\* ascending and holds exactly the times of the consumed results, each as often as it was
\* consumed.
C26_RetainedTimes ==
  /\ [](Len(stats.ResponseTimes) = stats.TotalRequests)
  /\ [](stats.TotalRequests = BagCardinality(consumed))
  /\ [][(mainPc = "collect" /\ mainPc' = "collect" /\ results' # results) =>
          stats'.ResponseTimes = Append(stats.ResponseTimes, Head(results).ResponseTime)]_vars
  /\ []((Returned /\ stats.TotalRequests > 0) =>
          LET q == stats.ResponseTimes IN
          /\ \A k \in 1..(Len(q) - 1) : q[k] <= q[k + 1]
          /\ \A t \in Range(q) \cup ConsumedTimes :
               Occurrences(q, t) = ConsumedCount(LAMBDA r : r.ResponseTime = t))

\* A stream with a repeated time, the larger time first, has been summarised.
C26_Witness ==
  /\ Returned
  /\ stats.ResponseTimes = <<2, 5, 5>>
  /\ Cardinality(BagToSet(consumed)) = 3

(***************************************************************************)
(* CollectAndCalculateStats: the summary is finalized once, at the end.    *)
(***************************************************************************)
\* The fields that are computed after the loop still have their initial values.
NotFinalized ==
  /\ stats.SuccessRate = InitStats.SuccessRate
  /\ stats.AverageTime = 0
  /\ stats.RequestsPerSecond = InitStats.RequestsPerSecond
  /\ stats.MedianTime = 0 /\ stats.P95Time = 0 /\ stats.P99Time = 0

\* C27: the summary is finalized exactly once and only after the stream is closed: rates,
\* average and percentiles are computed, and the collector returns, only when it has seen
\* the results channel closed and empty, with no result pending in a worker or enqueued;
\* after that the summary never changes.
C27_FinalizedOnceAfterClose ==
  /\ [](~Returned => NotFinalized)
  /\ [][ReturnStep =>
          /\ resultsClosed /\ Len(results) = 0
          /\ result = EmptyBag /\ pc["exited"] = numRequests
          /\ consumed = produced]_vars
  /\ [][Returned => (stats' = stats /\ mainPc' = mainPc /\ results' = results)]_vars

\* The collector has returned the summary of two requests, one of which failed, while the
\* progress goroutine still runs.
C27_Witness ==
  /\ Returned /\ numRequests = 2
  /\ stats.SuccessRate = <<50, 1>>
  /\ reporterPc = "range"

(***************************************************************************)
(* RunLoadTest: progress events and the admission gate.                    *)
(***************************************************************************)
\* Progress events sent so far: those buffered and those received.
ProgressSent == progressChan + completed

\* Results enqueued so far: those buffered and those consumed.
Enqueued == Len(results) + BagCardinality(consumed)

\* C28: every worker sends exactly one progress event, after it has enqueued its result
\* and before it releases its slot; a whole run sends exactly numRequests events, and the
\* progress channel is closed only after all of them were sent.
C28_OneProgressEventEach ==
  /\ [](ProgressSent = pc["release"] + pc["done"] + pc["exited"])
  /\ [](Enqueued = pc["progress"] + ProgressSent)
  /\ [](ProgressSent <= numRequests)
  /\ [](progressClosed => ProgressSent = numRequests)
  /\ [](Returned => ProgressSent = numRequests)
  /\ [][progressChan' > progressChan =>
          /\ progressChan' = progressChan + 1
          /\ pc' = Move(pc, "progress", "release")
          /\ semaphore' = semaphore /\ results' = results]_vars

\* All three workers of a run have sent their event, and the channel has been closed
\* before the progress goroutine has received any of them.
C28_Witness ==
  numRequests = 3 /\ progressClosed /\ progressChan = 3 /\ completed = 0

\* C29: the progress goroutine prints a line for the completion count k exactly when k is
\* a multiple of 10 or k = numRequests; the printed counts are strictly increasing, never
\* exceed numRequests, and none is printed twice.
C29_ProgressLines ==
  /\ completed <= numRequests
  /\ Range(printed) = {k \in 1..completed : k % 10 = 0 \/ k = numRequests}
  /\ \A j \in 1..(Len(printed) - 1) : printed[j] < printed[j + 1]
  /\ \A j \in 1..Len(printed) : printed[j] <= numRequests

\* A run of 13 requests: the lines for 10 and for 13 have been printed.
C29_Witness ==
  numRequests = 13 /\ printed = <<10, 13>> /\ reporterPc = "exited"

\* C30: every worker acquires one slot before it calls MakeRequest and releases one slot
\* after the call; the number of held slots equals the number of workers between acquire
\* and release, is never below 0 or above concurrency, and is 0 once the results channel
\* is closed.
C30_GateDiscipline ==
  /\ [](semaphore = InFlight)
  /\ [](0 <= semaphore /\ semaphore <= concurrency)
  /\ [](resultsClosed => semaphore = 0)
  /\ [][calls' # calls => (semaphore' = semaphore /\ pc["call"] > 0 /\ semaphore > 0)]_vars
  /\ [][semaphore' # semaphore =>
          \/ semaphore' = semaphore + 1 /\ pc' = Move(pc, "acquire", "call")
          \/ semaphore' = semaphore - 1 /\ pc' = Move(pc, "release", "done")]_vars

\* Two workers hold the two slots, one inside MakeRequest and one about to release, while a
\* third waits for admission.
C30_Witness ==
  /\ concurrency = 2 /\ semaphore = 2
  /\ pc["call"] = 1 /\ pc["release"] = 1 /\ pc["acquire"] = 1

(***************************************************************************)
(* CategorizeError: the kinds it returns.                                  *)
(***************************************************************************)
CatInput(err, statusCode, expectedStatus, expectedBody, responseBody) ==
  [err |-> err, statusCode |-> statusCode, expectedStatus |-> expectedStatus,
   expectedBody |-> expectedBody, responseBody |-> responseBody]

\* For each kind an input that is to yield it, after the calls of the package's tests.
KindExample(k) ==
  CASE k = ErrorTypeNone -> CatInput(nil, 200, 200, EmptyString, EmptyString)
    [] k = ErrorTypeDNS ->
         CatInput(DNSError(FALSE, text_noSuchHost), 200, 200, EmptyString, EmptyString)
    [] k = ErrorTypeConnection ->
         CatInput(OpError(str_dial, FALSE, text_refused), 200, 200, EmptyString, EmptyString)
    [] k = ErrorTypeTimeout -> CatInput(DeadlineExceeded, 200, 200, EmptyString, EmptyString)
    [] k = ErrorTypeTLS ->
         CatInput(errorString(text_tlsHandshake), 200, 200, EmptyString, EmptyString)
    [] k = ErrorTypeURL ->
         CatInput(UrlError(errorString(text_eof)), 200, 200, EmptyString, EmptyString)
    [] k = ErrorTypeNetwork ->
         CatInput(errorString(text_eof), 200, 200, EmptyString, EmptyString)
    [] k = ErrorTypeServerError -> CatInput(nil, 500, 200, EmptyString, EmptyString)
    [] k = ErrorTypeClientError -> CatInput(nil, 404, 200, EmptyString, EmptyString)
    [] k = ErrorTypeRedirect -> CatInput(nil, 300, 200, EmptyString, EmptyString)
    [] k = ErrorTypeHTTPStatus -> CatInput(nil, 299, 200, EmptyString, EmptyString)
    [] k = ErrorTypeBodyValidation -> CatInput(nil, 200, 200, str_hello, str_other)

KindOf(a) ==
  CategorizeError(a.err, a.statusCode, a.expectedStatus, a.expectedBody, a.responseBody)[1]

\* C31: CategorizeError returns each of the twelve kinds for at least one input, and never
\* a value outside the twelve.
C31_TwelveKinds ==
  /\ Cardinality(ErrorType) = 12
  /\ catResult # NoCategory => catResult[1] \in ErrorType
  /\ \A k \in ErrorType : KindExample(k) \in CatInputs /\ KindOf(KindExample(k)) = k

\* A call with an error whose text mentions tls, of no network type, has returned TLS.
C31_Witness ==
  /\ catResult # NoCategory
  /\ catArgs = KindExample(ErrorTypeTLS)
  /\ catResult[1] = ErrorTypeTLS

(***************************************************************************)
(* MakeRequest: the cap on the body.                                       *)
(***************************************************************************)
FirstBytes(body, n) == SubSeq(body, 1, Min(Len(body), n))

\* C32: MakeRequest reads at most BodyCap bytes of a response body, so the size of every
\* result is at most BodyCap; a longer body is cut to its first BodyCap bytes without a
\* transport failure, and the result is classified from the status and the cut body only.
C32_BodyCap ==
  execResult # NoResult =>
    LET a == execAnswer IN
    /\ execResult.ResponseSize <= BodyCap
    /\ (GotResponse(a) /\ a.readErr = nil) =>
         LET cut == FirstBytes(a.body, BodyCap)
             cat == CategorizeResponse(a.status, execConfig.ExpectedStatus,
                                       execConfig.ExpectedBody, cut)
         IN  /\ execResult.ResponseSize = Len(cut)
             /\ execResult.ErrorType \notin TransportKinds
             /\ execResult.ErrorType = cat[1]
             /\ execResult.ErrorMessage = cat[2]
             /\ execResult.StatusCode = a.status

\* A 200 response whose body holds the expected text only beyond the cap has been
\* classified from its first BodyCap bytes.
C32_Witness ==
  /\ execResult # NoResult /\ GotResponse(execAnswer) /\ execAnswer.readErr = nil
  /\ Len(execAnswer.body) > BodyCap
  /\ Contains(execAnswer.body, execConfig.ExpectedBody)
  /\ execConfig.ExpectedBody # EmptyString
  /\ execAnswer.status = 200 /\ execConfig.ExpectedStatus = 200
  /\ execResult.ResponseSize = BodyCap
  /\ execResult.ErrorType = ErrorTypeBodyValidation

(***************************************************************************)
(* RunLoadTest: the channels.                                              *)
(***************************************************************************)
\* Workers that have not yet sent their result, or their progress event.
BeforeSendResult == (numRequests - i) + pc["acquire"] + pc["call"] + pc["send"]
BeforeSendProgress == BeforeSendResult + pc["progress"]

\* C33: no worker sends a result to the results channel or an event to the progress
\* channel after that channel has been closed, and each of the two channels is closed
\* exactly once.
C33_NoSendOnClosed ==
  /\ [](~panicked)
  /\ [](resultsClosed => BeforeSendResult = 0)
  /\ [](progressClosed => BeforeSendProgress = 0)
  /\ [][Len(results') > Len(results) => ~resultsClosed /\ ~resultsClosed']_vars
  /\ [][progressChan' > progressChan => ~progressClosed /\ ~progressClosed']_vars
  /\ [](closes[1] = (IF resultsClosed THEN 1 ELSE 0))
  /\ [](closes[2] = (IF progressClosed THEN 1 ELSE 0))
  /\ []((closerPc = "exited" \/ Returned) => resultsClosed)
  /\ [](closerPc = "exited" => progressClosed)

\* The goroutine that closes the channels has closed both, once each, in a run of three
\* requests.
C33_Witness ==
  numRequests = 3 /\ closerPc = "exited" /\ closes = <<1, 1>> /\ ~panicked

\* C34: a worker that holds a slot never blocks on sending its result or its progress
\* event: neither channel ever holds more than its capacity numRequests, and a worker
\* standing at a send, or at the release of its slot, can take that step; so all
\* numRequests workers finish and release their slots even when the collector and the
\* progress goroutine have consumed nothing yet.
C34_SendsNeverBlock ==
  /\ Len(results) <= numRequests
  /\ progressChan <= numRequests
  /\ pc["send"] > 0 => ENABLED SendResult
  /\ pc["progress"] > 0 => ENABLED SendProgress
  /\ pc["release"] > 0 => ENABLED Release

\* All three workers of a run have finished and released their slots while the collector
\* and the progress goroutine have consumed nothing.
C34_Witness ==
  /\ numRequests = 3 /\ pc["exited"] = 3 /\ semaphore = 0
  /\ Len(results) = 3 /\ progressChan = 3
  /\ consumed = EmptyBag /\ completed = 0

\* C35: when RunLoadTest returns the summary, the progress goroutine has received all
\* numRequests events and has printed the final line (numRequests/numRequests); no
\* progress line is printed after the return.
C35_ProgressDoneAtReturn ==
  /\ [](Returned =>
          /\ completed = numRequests
          /\ progressChan = 0
          /\ Len(printed) > 0 /\ printed[Len(printed)] = numRequests)
  /\ [][Returned => printed' = printed]_vars

(***************************************************************************)
(* CollectAndCalculateStats: order of the time statistics, status 0.       *)
(***************************************************************************)
\* C36: in every final summary with TotalRequests > 0,
\* MinTime <= MedianTime <= P95Time <= P99Time <= MaxTime and
\* MinTime <= AverageTime <= MaxTime.
C36_TimeStatisticsOrdered ==
  (Returned /\ stats.TotalRequests > 0) =>
    /\ stats.MinTime <= stats.MedianTime
    /\ stats.MedianTime <= stats.P95Time
    /\ stats.P95Time <= stats.P99Time
    /\ stats.P99Time <= stats.MaxTime
    /\ stats.MinTime <= stats.AverageTime
    /\ stats.AverageTime <= stats.MaxTime

\* A stream with the times 5, 1, 3 in some order has been summarised.
C36_Witness ==
  /\ Returned /\ stats.TotalRequests = 3 /\ ConsumedTimes = {1, 3, 5}
  /\ stats.MinTime = 1 /\ stats.MedianTime = 3 /\ stats.MaxTime = 5
  /\ stats.AverageTime = 3

SemanticKinds == {ErrorTypeServerError, ErrorTypeClientError, ErrorTypeRedirect,
                  ErrorTypeHTTPStatus, ErrorTypeBodyValidation}

\* The number of entries of a breakdown.
BreakdownTotal(b) == BagCardinality(b)

\* C37: a result of MakeRequest with StatusCode 0 has a transport kind (DNS, Connection,
\* Timeout, TLS, URL, Network), and a result with a semantic kind (ServerError,
\* ClientError, Redirect, HTTPStatus, BodyValidation) has StatusCode > 0; the collector
\* does not enter results with StatusCode 0 in StatusBreakdown, so the counts of
\* StatusBreakdown add up to TotalRequests minus the number of results with status 0.
C37_TierAndStatus ==
  /\ \A r \in BagToSet(produced) :
       /\ r.StatusCode = 0 => r.ErrorType \in TransportKinds
       /\ r.ErrorType \in SemanticKinds => r.StatusCode > 0
  /\ 0 \notin DOMAIN stats.StatusBreakdown
  /\ BreakdownTotal(stats.StatusBreakdown)
       = stats.TotalRequests - ConsumedCount(LAMBDA r : r.StatusCode = 0)

\* The result of a request that got no response (kind URL, as client.Do's errors are
\* classified) has been consumed and the summary returned without an entry for it.
C37_Witness ==
  /\ Returned /\ stats.TotalRequests = 1
  /\ \E r \in BagToSet(consumed) : r.StatusCode = 0 /\ r.ErrorType = ErrorTypeURL
  /\ BreakdownTotal(stats.StatusBreakdown) = 0

====
